---- MODULE Spec2Model ----
(***************************************************************************)
(* Verification model of the attribute layer (lib/sqlalchemy/attributes.py)*)
(* and of the generative Query builder (lib/sqlalchemy/orm/query.py).      *)
(*                                                                         *)
(* SpecAttr  : one AttributeManager driving the scalar attributes of a set *)
(*             of instances (get/set/delete/set_callable/commit/rollback). *)
(* SpecQuery : a pool of Query objects grown by chained generative calls.  *)
(***************************************************************************)
EXTENDS Integers, Sequences, FiniteSets, TLC

(* ------------------------------ bounds -------------------------------- *)
\* largest attribute value
MaxVal == 2
\* cap of the callable-invocation probe
MaxCalls == 2
\* number of Query objects in a chain of generative calls
MaxQ == 4
\* number of Query objects in a chain that ends in a terminal operation
MaxChain == 3
\* largest primary key
MaxIdent == 2
\* largest number of rows a cursor returns
MaxRows == 3
\* update(), delete() and get() calls made in one session
MaxOps == 4

(* --------------------------- value universe --------------------------- *)
Objs == {"o1"}
Keys == {"a", "b"}
Vals == 1..MaxVal
\* Python None
Null == 0
\* key missing from obj.__dict__
Absent == -1
\* the PropHistory.NONE sentinel
NONE == -2
\* some list instance
ListVal == -3

\* dict    : obj.__dict__ restricted to the managed keys
\* managed : obj.__dict__['_managed_attributes'], key -> state object
\* calls   : probe, invocations of the callable of the slot last installed
\* last    : probe, the operation just performed (its input, the state of the
\*           attribute before it, its result) and a summary of the one before
VARIABLES dict, managed, calls, last

attrvars == <<dict, managed, calls, last>>

\* queries : the Query objects created so far, oldest first; each generative
\*           call is made on the newest one and appends the Query it returns
\* heap    : the mutable containers Query objects refer to (the lists, dicts
\*           and sets behind _entities, _params, _attributes,
\*           _polymorphic_adapters and __currenttables), by reference
\* qlast   : probe, the call just made, the Query it was made on (src), the
\*           Query it returned (new, 0 if it raised) and, for every Query,
\*           the call that returned it (by)
VARIABLES queries, heap, qlast

queryvars == <<queries, heap, qlast>>

\* db      : the rows of the mapped table, by primary key
\* session : the session's view of each instance: whether it is in the
\*           identity map, which of its attributes are expired, the values
\*           its __dict__ holds
\* xlast   : probe, the terminal operation just performed (its input, the
\*           statements it executed, its result)
VARIABLES db, session, xlast

sessionvars == <<db, session, xlast>>
vars == <<dict, managed, calls, last, queries, heap, qlast, db, session, xlast>>

(* ------------------- per-attribute state objects ---------------------- *)
NoEntry == [kind |-> "none"]
PropHistory(orig) == [kind |-> "PropHistory", orig |-> orig]
CallableProp(callable_) == [kind |-> "CallableProp", callable_ |-> callable_]

\* the state of one (instance, key): stored value, side-table entry, probe
Cell(o, k) == [val |-> dict[o][k], hist |-> managed[o][k], n |-> calls[o][k]]

\* obj.__dict__.get(key, None)
dict_get(c) == IF c.val = Absent THEN Null ELSE c.val

\* variant of CallableProp.getattr that leaves the slot registered
CallableProp_getattr_keepslot(c) ==
    IF c.val = Absent \/ c.val = Null
    THEN [c EXCEPT !.val = c.hist.callable_, !.n = c.n + 1]
    ELSE c

\* CallableProp.getattr: run the callable only when nothing (or None) is
\* stored, then replace the slot by a fresh PropHistory
CallableProp_getattr(c) ==
    IF dict_get(c) = Null
    THEN [val |-> c.hist.callable_, hist |-> PropHistory(NONE), n |-> c.n + 1]
    ELSE [c EXCEPT !.hist = PropHistory(NONE)]

\* AttributeManager.get_history for a scalar attribute
get_history(c) ==
    CASE c.hist.kind = "none" -> [c EXCEPT !.hist = PropHistory(NONE)]
      [] c.hist.kind = "PropHistory" -> c
      [] c.hist.kind = "CallableProp" -> CallableProp_getattr(c)

\* variant of PropHistory.setattr without the check of the value's type
PropHistory_setattr_anylist(c, value) ==
    [c EXCEPT !.hist = PropHistory(dict_get(c)), !.val = value]

\* PropHistory.setattr
PropHistory_setattr(c, value) ==
    IF value = ListVal
    THEN c
    ELSE [c EXCEPT !.hist = PropHistory(dict_get(c)), !.val = value]

\* PropHistory.delattr
PropHistory_delattr(c) ==
    [c EXCEPT !.hist = PropHistory(dict_get(c)), !.val = Null]

\* PropHistory.rollback / CallableProp.rollback on one entry
hist_rollback(c) ==
    IF c.hist.kind = "PropHistory" /\ c.hist.orig # NONE
    THEN [c EXCEPT !.val = c.hist.orig, !.hist = PropHistory(NONE)]
    ELSE c

\* variant of commit that keeps the original
hist_commit_keeporig(c) == c

\* PropHistory.commit / CallableProp.commit on one entry
hist_commit(c) ==
    IF c.hist.kind = "PropHistory"
    THEN [c EXCEPT !.hist = PropHistory(NONE)]
    ELSE c

\* variant of the read's outcome that never raises
read_error_never(c) == "ok"

\* PropHistory.getattr after get_history, as seen by get_attribute
read_result(c) == c.val
read_error(c) == IF c.val = Absent THEN "AttributeError" ELSE "ok"

NoCell == [val |-> Absent, hist |-> NoEntry, n |-> 0]

\* a pending edit: a tracker whose original was captured
Dirty(c) == c.hist.kind = "PropHistory" /\ c.hist.orig # NONE
\* no pending edit and no unresolved Lazy Slot
Clean(c) == c.hist = NoEntry \/ c.hist = PropHistory(NONE)

Store(o, k, c) ==
    /\ dict' = [dict EXCEPT ![o][k] = c.val]
    /\ managed' = [managed EXCEPT ![o][k] = c.hist]
    /\ calls' = [calls EXCEPT ![o][k] = c.n]

Record(op, os, k, arg, pre, ret, err, n) ==
    last' = [op |-> op, objs |-> os, key |-> k, arg |-> arg, pre |-> pre,
             ret |-> ret, err |-> err, n |-> n,
             after |-> [op |-> last.op, key |-> last.key,
                        dirty |-> Dirty(last.pre)]]

(* ----------------- change classification of a scalar ------------------ *)
\* the outcome of a classification call on a tracker: the list it returns,
\* or the KeyError of the lookup obj.__dict__[key] for a key not stored
Items(list) == [err |-> "ok", list |-> list]
NoItems == [err |-> "KeyError", list |-> <<>>]

\* PropHistory.added_items
added_items(c) ==
    IF c.hist.orig # NONE
    THEN IF c.val = Absent THEN NoItems ELSE Items(<<c.val>>)
    ELSE Items(<<>>)

\* PropHistory.deleted_items
deleted_items(c) ==
    IF c.hist.orig # NONE /\ c.hist.orig # Null
    THEN Items(<<c.hist.orig>>)
    ELSE Items(<<>>)

\* PropHistory.unchanged_items
unchanged_items(c) ==
    IF c.hist.orig = NONE
    THEN IF c.val = Absent THEN NoItems ELSE Items(<<c.val>>)
    ELSE Items(<<>>)

(* ------------------------------ actions ------------------------------- *)
InitAttr ==
    /\ dict = [o \in Objs |-> [k \in Keys |-> Absent]]
    /\ managed = [o \in Objs |-> [k \in Keys |-> NoEntry]]
    /\ calls = [o \in Objs |-> [k \in Keys |-> 0]]
    /\ last = [op |-> "init", objs |-> {}, key |-> "-", arg |-> Null,
               pre |-> NoCell, ret |-> Null, err |-> "ok", n |-> 0,
               after |-> [op |-> "init", key |-> "-", dirty |-> FALSE]]

\* AttributeManager.get_attribute(obj, key)
get_attribute(o, k) ==
    LET c == Cell(o, k)
        h == get_history(c)
    IN /\ c.n < MaxCalls
       /\ Store(o, k, h)
       /\ Record("get_attribute", {o}, k, Null, c, read_result(h), read_error(h),
                 h.n - c.n)

\* AttributeManager.set_attribute(obj, key, value)
set_attribute(o, k, value) ==
    LET c == Cell(o, k)
        h == get_history(c)
        s == PropHistory_setattr(h, value)
    IN /\ c.n < MaxCalls
       /\ Store(o, k, s)
       /\ Record("set_attribute", {o}, k, value, c, Null,
                 IF value = ListVal THEN "TypeError" ELSE "ok", s.n - c.n)

\* AttributeManager.delete_attribute(obj, key)
delete_attribute(o, k) ==
    LET c == Cell(o, k)
        h == get_history(c)
        s == PropHistory_delattr(h)
    IN /\ c.n < MaxCalls
       /\ Store(o, k, s)
       /\ Record("delete_attribute", {o}, k, Null, c, Null, "ok", s.n - c.n)

\* AttributeManager.set_callable(obj, key, func, uselist=False); func is
\* represented by the value it returns; the probe restarts with the new slot
set_callable(o, k, func) ==
    LET c == Cell(o, k)
    IN /\ Store(o, k, [c EXCEPT !.hist = CallableProp(func), !.n = 0])
       /\ Record("set_callable", {o}, k, func, c, Null, "ok", 0)

\* AttributeManager.rollback(*obj)
rollback(os) ==
    /\ dict' = [o \in Objs |-> [k \in Keys |->
                  IF o \in os THEN hist_rollback(Cell(o, k)).val ELSE dict[o][k]]]
    /\ managed' = [o \in Objs |-> [k \in Keys |->
                  IF o \in os THEN hist_rollback(Cell(o, k)).hist ELSE managed[o][k]]]
    /\ UNCHANGED calls
    /\ Record("rollback", os, "-", Null, NoCell, Null, "ok", 0)

\* AttributeManager.commit(*obj)
commit(os) ==
    /\ dict' = [o \in Objs |-> [k \in Keys |->
                  IF o \in os THEN hist_commit(Cell(o, k)).val ELSE dict[o][k]]]
    /\ managed' = [o \in Objs |-> [k \in Keys |->
                  IF o \in os THEN hist_commit(Cell(o, k)).hist ELSE managed[o][k]]]
    /\ UNCHANGED calls
    /\ Record("commit", os, "-", Null, NoCell, Null, "ok", 0)

DoGet ==
    /\ \E o \in Objs, k \in Keys : get_attribute(o, k)
    /\ UNCHANGED <<queryvars, sessionvars>>
DoSet ==
    /\ \E o \in Objs, k \in Keys, v \in Vals \cup {Null, ListVal} :
          set_attribute(o, k, v)
    /\ UNCHANGED <<queryvars, sessionvars>>
DoDelete ==
    /\ \E o \in Objs, k \in Keys : delete_attribute(o, k)
    /\ UNCHANGED <<queryvars, sessionvars>>
DoSetCallable ==
    /\ \E o \in Objs, k \in Keys, f \in Vals \cup {Null} : set_callable(o, k, f)
    /\ UNCHANGED <<queryvars, sessionvars>>
DoRollback ==
    /\ \E os \in SUBSET Objs : os # {} /\ rollback(os)
    /\ UNCHANGED <<queryvars, sessionvars>>
DoCommit ==
    /\ \E os \in SUBSET Objs : os # {} /\ commit(os)
    /\ UNCHANGED <<queryvars, sessionvars>>

NextAttr ==
    \/ DoGet
    \/ DoSet
    \/ DoDelete
    \/ DoSetCallable
    \/ DoRollback
    \/ DoCommit

\* no Query has been constructed
QueryIdle ==
    /\ queries = <<>>
    /\ heap = <<>>
    /\ qlast = [op |-> "none", err |-> "ok", src |-> 0, new |-> 0, by |-> <<>>]

\* no table, no session, no terminal operation
SessionIdle ==
    /\ db = <<>>
    /\ session = <<>>
    /\ xlast = [op |-> "none"]

InitAttrSpec == InitAttr /\ QueryIdle /\ SessionIdle

SpecAttr == InitAttrSpec /\ [][NextAttr]_vars


(* ======================== the Query builder ========================== *)

\* Python None in an integer-valued field (_limit, _offset)
Unset == -1
\* Python None / False in a name-valued field (_statement, _joinpoint)
NoName == "None"

\* the mapped classes a Query is built on, and what their mappers say
Mappers == {"User", "Person"}
\* mapper.with_polymorphic is configured on the mapper
MapperWithPolymorphic(m) == m = "Person"
\* the tables reached by mapper._with_polymorphic_mappers / iterate_to_root
MapperTables(m) == IF m = "Person" THEN {"people", "engineers"} ELSE {"users"}
\* the selectable of a mapper entity
MapperSelectable(m) == IF m = "Person" THEN "people_engineers" ELSE "users"
\* relation properties a join() can name: target mapper, table, secondary
Props == {"addresses", "friends"}
PropMapper(pr) ==
    IF pr = "friends" THEN "Person" ELSE IF pr = "manager" THEN "User"
    ELSE "Address"
PropTable(pr) ==
    IF pr = "friends" THEN "people" ELSE IF pr = "manager" THEN "users"
    ELSE "addresses"

Criteria == {"x", "y"}

(* --------------------------- dict helpers ---------------------------- *)
\* a dict is the set of its <<key, value>> items
DictSet(d, k, v) == {it \in d : it[1] # k} \cup {<<k, v>>}
DictPop(d, ks) == {it \in d : it[1] \notin ks}

(* ------------------------------ entities ----------------------------- *)
\* _MapperEntity.__init__ + setup_entity
MapperEntity(primary, m) ==
    [kind |-> "mapper", primary |-> primary, entity |-> m,
     selectable |-> MapperSelectable(m), with_polymorphic |-> NoName,
     is_aliased_class |-> FALSE]

\* _MapperEntity on an AliasedClass (add_entity(entity, alias))
AliasedEntity(primary, m) ==
    [kind |-> "mapper", primary |-> primary, entity |-> m,
     selectable |-> "alias", with_polymorphic |-> NoName,
     is_aliased_class |-> TRUE]

\* the column expressions a Query or add_column() can be given, and the
\* mapped class each belongs to
Columns == {"users.name", "people.name"}
ColumnParent(c) == IF c = "people.name" THEN "Person" ELSE "User"
\* __setup_aliasizers for a column entity looks at the column's parent entity
ColumnSetupEntity(c) == MapperEntity(FALSE, ColumnParent(c))

\* _ColumnEntity.__init__ + setup_entity: the selectable is the one of the
\* column's parent entity
ColumnEntity(c) ==
    [kind |-> "column", primary |-> FALSE, entity |-> c,
     selectable |-> MapperSelectable(ColumnParent(c)),
     with_polymorphic |-> NoName, is_aliased_class |-> FALSE]

\* Query.__mapper_loads_polymorphically_with: writes into the dict it is given
mapper_loads_polymorphically_with(pa, m, adapter) ==
    {it \in pa : it[1] \notin MapperTables(m)}
        \cup {<<t, adapter>> : t \in MapperTables(m)}

\* Query._reset_polymorphic_adapter: pops from the dict it is given
reset_polymorphic_adapter(pa, m) == DictPop(pa, MapperTables(m))

\* Query.__setup_aliasizers for one new entity: the polymorphic adapters dict
\* after it
setup_aliasizers(pa, e) ==
    IF e.kind = "mapper" /\ ~e.is_aliased_class /\ MapperWithPolymorphic(e.entity)
    THEN mapper_loads_polymorphically_with(pa, e.entity, e.selectable)
    ELSE pa

(* ---------------------------- Query state ---------------------------- *)
\* Query.__init__ for one mapped class: the fields, with the heap references
\* of its five containers
NewQuery(r) ==
    [_criterion |-> <<>>, _statement |-> NoName, _from_obj |-> <<>>,
     _limit |-> Unset, _offset |-> Unset,
     _order_by |-> <<>>, _group_by |-> <<>>, _having |-> <<>>,
     _distinct |-> FALSE, _joinpoint |-> NoName, _filter_aliases |-> <<>>,
     _from_obj_alias |-> FALSE, _correlate |-> {}, _with_options |-> <<>>,
     _with_labels |-> FALSE, _lockmode |-> NoName,
     _populate_existing |-> FALSE,
     _entities |-> r, _params |-> r + 1, _attributes |-> r + 2,
     _polymorphic_adapters |-> r + 3, currenttables |-> r + 4]

NewHeap(m) ==
    << <<MapperEntity(TRUE, m)>>, {}, {},
       setup_aliasizers({}, MapperEntity(TRUE, m)), {} >>

\* Query.__init__ for one column expression: the heap of containers
NewColumnHeap(c) ==
    << <<ColumnEntity(c)>>, {}, {},
       setup_aliasizers({}, ColumnSetupEntity(c)), {} >>

\* the containers a Query refers to
Entities(q, h) == h[q._entities]
Params(q, h) == h[q._params]
Attributes(q, h) == h[q._attributes]
PolymorphicAdapters(q, h) == h[q._polymorphic_adapters]
CurrentTables(q, h) == h[q.currenttables]

\* result of a generative call: the Query returned (if any), the heap after
Ok(q, h) == [err |-> "ok", q |-> q, heap |-> h]
Raise(e, q, h) == [err |-> e, q |-> q, heap |-> h]

(* ------------------------------ guards ------------------------------- *)
\* variant of __no_statement_condition that never raises
no_statement_condition_off(q) == FALSE

\* Query.__no_statement_condition
no_statement_condition(q) == q._statement # NoName

\* variant of __no_limit_offset that tests truth instead of "is not None"
no_limit_offset_truthy(q) == q._limit > 0 \/ q._offset > 0

\* Query.__no_limit_offset
no_limit_offset(q) == q._limit # Unset \/ q._offset # Unset

\* Query.__no_from_condition
no_from_condition(q) == q._from_obj # <<>>

\* variant of __no_criterion_condition that forgets GROUP BY
no_criterion_condition_nogroup(q) ==
    \/ q._criterion # <<>>
    \/ q._statement # NoName
    \/ q._from_obj # <<>>
    \/ q._limit # Unset
    \/ q._offset # Unset
    \/ q._order_by # <<>>

\* Query.__no_criterion_condition: the test
no_criterion_condition(q) ==
    \/ q._criterion # <<>>
    \/ q._statement # NoName
    \/ q._from_obj # <<>>
    \/ q._limit # Unset
    \/ q._offset # Unset
    \/ q._group_by # <<>>
    \/ q._order_by # <<>>

\* Query.__no_criterion_condition: the fields it resets when it passes
no_criterion_reset(q) ==
    [q EXCEPT !._statement = NoName, !._criterion = <<>>, !._from_obj = <<>>,
              !._order_by = <<>>, !._group_by = <<>>, !._distinct = FALSE]


(* ------------------------ clause adaptation -------------------------- *)
\* Query._adapt_clause: the clause with the replacements the Query's current
\* adapters make (filter aliases, polymorphic adapters, FROM alias)
adapt_clause(q, h, clause, as_filter) ==
    [clause |-> clause,
     filter_aliases |-> IF as_filter THEN q._filter_aliases ELSE <<>>,
     polymorphic |-> PolymorphicAdapters(q, h),
     from_obj_alias |-> q._from_obj_alias]

\* an element of a FROM clause: a base selectable, a join onto the element
\* before it, or the aliased SELECT of another Query (inner = <<statement>>)
FromElement(kind, target, aliased, outer, inner) ==
    [kind |-> kind, target |-> target, aliased |-> aliased, outer |-> outer,
     inner |-> inner]

(* --------------------------- compilation ----------------------------- *)
\* _MapperEntity._get_entity_clauses / _ColumnEntity.setup_context: what one
\* entity contributes to the select list
EntityColumns(q, h, e) ==
    [entity |-> e.entity, selectable |-> e.selectable,
     with_polymorphic |-> e.with_polymorphic,
     adapter |-> IF e.kind = "mapper" /\ ~e.is_aliased_class
                 THEN {it \in PolymorphicAdapters(q, h) :
                          it[1] \in MapperTables(e.entity)}
                 ELSE IF e.kind = "column"
                      THEN PolymorphicAdapters(q, h)
                      ELSE {},
     from_obj_alias |-> q._from_obj_alias]

\* Query._compile_context: the lock modes its table knows, with the
\* for_update flag each stands for
LockModes == {"read", "update", "update_nowait"}
ForUpdate(mode) ==
    CASE mode = "read" -> "read"
      [] mode = "update" -> "TRUE"
      [] mode = "update_nowait" -> "nowait"
      [] OTHER -> "FALSE"

\* Query._compile_context: the error it ends with, "ok" when it returns. A
\* Query with a raw statement returns before the lock mode is looked at.
compile_error(q) ==
    IF q._statement # NoName
    THEN "ok"
    ELSE IF q._lockmode # NoName /\ q._lockmode \notin LockModes
         THEN "ArgumentError"
         ELSE "ok"

\* Query._compile_context (QueryContext.__init__ + the flat SELECT): the
\* statement the Query stands for
Compile(q, h, labels) ==
    IF q._statement # NoName
    THEN [statement |-> q._statement, columns |-> <<>>, whereclause |-> <<>>,
          froms |-> <<>>, order_by |-> <<>>, group_by |-> <<>>,
          having |-> <<>>, limit |-> Unset, offset |-> Unset,
          distinct |-> FALSE, correlate |-> {}, use_labels |-> labels,
          for_update |-> "FALSE"]
    ELSE [statement |-> NoName,
          columns |-> [i \in 1..Len(Entities(q, h)) |->
                          EntityColumns(q, h, Entities(q, h)[i])],
          whereclause |-> q._criterion,
          froms |-> IF q._from_obj # <<>>
                    THEN q._from_obj
                    ELSE [i \in 1..Len(Entities(q, h)) |->
                            FromElement("base", Entities(q, h)[i].selectable,
                                        FALSE, FALSE, <<>>)],
          order_by |-> q._order_by, group_by |-> q._group_by,
          having |-> q._having, limit |-> q._limit, offset |-> q._offset,
          distinct |-> q._distinct, correlate |-> q._correlate,
          use_labels |-> labels, for_update |-> ForUpdate(q._lockmode)]

\* Query.statement
Statement(q, h) == Compile(q, h, q._with_labels)

(* ------------------------ generative methods ------------------------- *)
\* each takes the clone made by _generative (the same field values and the
\* same container references as the Query called) and the heap

\* Query.filter(criterion)
filter(q, h, criterion) ==
    IF no_statement_condition(q) \/ no_limit_offset(q)
    THEN Raise("InvalidRequestError", q, h)
    ELSE Ok([q EXCEPT !._criterion =
                 Append(q._criterion, adapt_clause(q, h, criterion, TRUE))], h)

\* Query.order_by(*criterion)
order_by(q, h, criterion) ==
    IF no_statement_condition(q) \/ no_limit_offset(q)
    THEN Raise("InvalidRequestError", q, h)
    ELSE Ok([q EXCEPT !._order_by =
                 Append(q._order_by, adapt_clause(q, h, criterion, TRUE))], h)

\* Query.group_by(*criterion)
group_by(q, h, criterion) ==
    IF no_statement_condition(q) \/ no_limit_offset(q)
    THEN Raise("InvalidRequestError", q, h)
    ELSE Ok([q EXCEPT !._group_by = Append(q._group_by, criterion)], h)

\* Query.having(criterion)
having(q, h, criterion) ==
    IF no_statement_condition(q) \/ no_limit_offset(q)
    THEN Raise("InvalidRequestError", q, h)
    ELSE Ok([q EXCEPT !._having =
                 Append(q._having, adapt_clause(q, h, criterion, TRUE))], h)

\* Query.reset_joinpoint()
reset_joinpoint(q, h) ==
    IF no_statement_condition(q)
    THEN Raise("InvalidRequestError", q, h)
    ELSE Ok([q EXCEPT !._joinpoint = NoName, !._filter_aliases = <<>>], h)

\* Query.slice(start, stop); Unset stands for None
slice(q, h, start, stop) ==
    IF no_statement_condition(q)
    THEN Raise("InvalidRequestError", q, h)
    ELSE LET off == (IF q._offset = Unset THEN 0 ELSE q._offset) + start
         IN Ok(CASE start # Unset /\ stop # Unset ->
                      [q EXCEPT !._offset = off, !._limit = stop - start]
                 [] start = Unset /\ stop # Unset ->
                      [q EXCEPT !._limit = stop]
                 [] start # Unset /\ stop = Unset ->
                      [q EXCEPT !._offset = off]
                 [] OTHER -> q, h)

\* Query.limit(limit)
limit(q, h, n) ==
    IF no_statement_condition(q)
    THEN Raise("InvalidRequestError", q, h)
    ELSE Ok([q EXCEPT !._limit = n], h)

\* Query.offset(offset)
offset(q, h, n) ==
    IF no_statement_condition(q)
    THEN Raise("InvalidRequestError", q, h)
    ELSE Ok([q EXCEPT !._offset = n], h)

\* Query.distinct()
distinct(q, h) ==
    IF no_statement_condition(q)
    THEN Raise("InvalidRequestError", q, h)
    ELSE Ok([q EXCEPT !._distinct = TRUE], h)

\* Query.from_statement(statement)
from_statement(q, h, statement) ==
    IF no_criterion_condition(q)
    THEN Raise("InvalidRequestError", q, h)
    ELSE Ok([no_criterion_reset(q) EXCEPT !._statement = statement], h)

\* Query.select_from(from_obj) for a plain table (__set_select_from)
select_from(q, h, from_obj) ==
    IF no_from_condition(q) \/ no_criterion_condition(q)
    THEN Raise("InvalidRequestError", q, h)
    ELSE Ok([no_criterion_reset(q) EXCEPT
                !._from_obj = <<FromElement("base", from_obj, FALSE, FALSE, <<>>)>>],
            h)

\* Query.with_lockmode(mode): any mode is stored
with_lockmode(q, h, mode) == Ok([q EXCEPT !._lockmode = mode], h)

\* Query.populate_existing()
populate_existing(q, h) == Ok([q EXCEPT !._populate_existing = TRUE], h)

\* Query.correlate(*args)
correlate(q, h, sel) ==
    Ok([q EXCEPT !._correlate = q._correlate \cup {sel}], h)

\* Query.params(**kwargs): the dict is copied, the copy updated
params(q, h, k, v) ==
    Ok([q EXCEPT !._params = Len(h) + 1],
       Append(h, DictSet(Params(q, h), k, v)))

\* Query.__options: _attributes is copied, the option writes into the copy
options(q, h, opt) ==
    Ok([q EXCEPT !._attributes = Len(h) + 1,
                 !._with_options = Append(q._with_options, opt)],
       Append(h, DictSet(Attributes(q, h), opt, "set")))


\* Query.add_entity(entity, alias): the entity list is copied and extended;
\* __setup_aliasizers then works on self._polymorphic_adapters as it is
add_entity(q, h, m, alias) ==
    LET e == IF alias THEN AliasedEntity(FALSE, m) ELSE MapperEntity(FALSE, m)
        h1 == Append(h, Append(Entities(q, h), e))
        h2 == [h1 EXCEPT ![q._polymorphic_adapters] =
                  setup_aliasizers(PolymorphicAdapters(q, h), e)]
    IN Ok([q EXCEPT !._entities = Len(h) + 1], h2)

\* Query.add_column(column)
add_column(q, h, c) ==
    LET h1 == Append(h, Append(Entities(q, h), ColumnEntity(c)))
        h2 == [h1 EXCEPT ![q._polymorphic_adapters] =
                  setup_aliasizers(PolymorphicAdapters(q, h), ColumnSetupEntity(c))]
    IN Ok([q EXCEPT !._entities = Len(h) + 1], h2)

\* _MapperEntity.set_with_polymorphic on the cloned entity zero: the entity
\* after it
set_with_polymorphic_entity(e, spec) ==
    IF spec = NoName
    THEN e
    ELSE IF e.is_aliased_class
         THEN [e EXCEPT !.with_polymorphic = spec]
         ELSE [e EXCEPT !.with_polymorphic = spec, !.selectable = "polymorphic_union"]

\* _MapperEntity.set_with_polymorphic: what it does to the dict behind
\* query._polymorphic_adapters
set_with_polymorphic_adapters(pa, e, spec) ==
    IF spec = NoName
    THEN reset_polymorphic_adapter(pa, e.entity)
    ELSE IF e.is_aliased_class
         THEN pa
         ELSE mapper_loads_polymorphically_with(pa, e.entity, "polymorphic_union")

\* Query.with_polymorphic(cls_or_mappers): _generate_mapper_zero makes a new
\* entity list holding a clone of entity zero; set_with_polymorphic works on
\* the clone and on self._polymorphic_adapters as it is
with_polymorphic(q, h, spec) ==
    IF no_from_condition(q) \/ no_criterion_condition(q)
    THEN Raise("InvalidRequestError", q, h)
    ELSE LET q1 == no_criterion_reset(q)
             ents == Entities(q1, h)
         IN IF ~ents[1].primary
            THEN Raise("InvalidRequestError", q, h)
            ELSE LET h1 == Append(h, [ents EXCEPT ![1] =
                                        set_with_polymorphic_entity(ents[1], spec)])
                     h2 == [h1 EXCEPT ![q1._polymorphic_adapters] =
                               set_with_polymorphic_adapters(
                                   PolymorphicAdapters(q1, h), ents[1], spec)]
                 IN Ok([q1 EXCEPT !._entities = Len(h) + 1], h2)

\* Query.from_self(*entities): ents is <<>> or the mapped classes that replace
\* the entities
from_self(q, h, ents) ==
    LET fromclause == Compile(q, h, TRUE)
        q1 == [q EXCEPT !._statement = NoName, !._criterion = <<>>,
                        !._order_by = <<>>, !._group_by = <<>>,
                        !._distinct = FALSE,
                        !._limit = Unset, !._offset = Unset,
                        !._from_obj = <<FromElement("subquery", "anon", TRUE,
                                                    FALSE, <<fromclause>>)>>,
                        !._from_obj_alias = TRUE]
    IN IF compile_error(q) # "ok"
       THEN Raise(compile_error(q), q, h)
       ELSE IF ents = <<>>
       THEN Ok(q1, h)
       ELSE LET new == [i \in 1..Len(ents) |-> MapperEntity(i = 1, ents[i])]
                h1 == Append(h, new)
                h2 == [h1 EXCEPT ![q._polymorphic_adapters] =
                          setup_aliasizers(PolymorphicAdapters(q, h), new[1])]
            IN Ok([q1 EXCEPT !._entities = Len(h) + 1], h2)

\* Query.__join for one string key (from_joinpoint=False)
join(q, h, prop, outerjoin, create_aliases) ==
    IF no_statement_condition(q) \/ no_limit_offset(q)
    THEN Raise("InvalidRequestError", q, h)
    ELSE
    LET ct == Len(h) + 1
        pa == Len(h) + 2
        h1 == Append(Append(h, CurrentTables(q, h)), PolymorphicAdapters(q, h))
        right_mapper == PropMapper(prop)
        clause == IF q._from_obj # <<>>
                  THEN q._from_obj
                  ELSE <<FromElement("base", Entities(q, h)[1].selectable,
                                     FALSE, FALSE, <<>>)>>
        aliased_entity == MapperWithPolymorphic(right_mapper)
        alias_criterion == aliased_entity \/ create_aliases
        skip == ~alias_criterion /\ PropTable(prop) \in CurrentTables(q, h)
        h2 == IF alias_criterion \/ skip
              THEN h1
              ELSE [h1 EXCEPT ![ct] = h1[ct] \cup {PropTable(prop)}]
        h3 == IF aliased_entity
              THEN [h2 EXCEPT ![pa] =
                      mapper_loads_polymorphically_with(h2[pa], right_mapper, "alias")]
              ELSE h2
    IN Ok([q EXCEPT !.currenttables = ct,
                    !._polymorphic_adapters = pa,
                    !._joinpoint = right_mapper,
                    !._filter_aliases =
                        IF alias_criterion THEN <<right_mapper>> ELSE <<>>,
                    !._from_obj =
                        IF skip
                        THEN clause
                        ELSE Append(clause, FromElement("join", right_mapper,
                                         alias_criterion, outerjoin, <<>>))],
          h3)

(* ------------------------------ actions ------------------------------ *)

InitQuery ==
    \E m \in Mappers :
       /\ queries = <<NewQuery(1)>>
       /\ heap = NewHeap(m)
       /\ qlast = [op |-> "Query", err |-> "ok", src |-> 0, new |-> 1,
                   by |-> <<"Query">>]

\* variant of _generative that works on self instead of self._clone()
Call_noclone(op, r) ==
    /\ queries' = IF r.err = "ok"
                  THEN Append([queries EXCEPT ![Len(queries)] = r.q], r.q)
                  ELSE queries
    /\ heap' = r.heap
    /\ qlast' = [op |-> op, err |-> r.err, src |-> Len(queries),
                 new |-> IF r.err = "ok" THEN Len(queries) + 1 ELSE 0,
                 by |-> IF r.err = "ok" THEN Append(qlast.by, op) ELSE qlast.by]
    /\ UNCHANGED <<attrvars, sessionvars>>

\* the caller makes a generative call on the newest Query: the clone is
\* passed to the method; a Query is returned unless the call raises
Call(op, r) ==
    /\ queries' = IF r.err = "ok" THEN Append(queries, r.q) ELSE queries
    /\ heap' = r.heap
    /\ qlast' = [op |-> op, err |-> r.err, src |-> Len(queries),
                 new |-> IF r.err = "ok" THEN Len(queries) + 1 ELSE 0,
                 by |-> IF r.err = "ok" THEN Append(qlast.by, op) ELSE qlast.by]
    /\ UNCHANGED <<attrvars, sessionvars>>

Cur == queries[Len(queries)]
CanCall == Len(queries) < MaxQ

DoFilter == CanCall /\ \E c \in Criteria : Call("filter", filter(Cur, heap, c))
DoOrderBy == CanCall /\ Call("order_by", order_by(Cur, heap, "x"))
DoGroupBy == CanCall /\ Call("group_by", group_by(Cur, heap, "x"))
DoHaving == CanCall /\ Call("having", having(Cur, heap, "x"))
DoJoin == CanCall /\ \E pr \in Props, al \in BOOLEAN :
              Call("join", join(Cur, heap, pr, FALSE, al))
DoOuterJoin == CanCall /\ \E pr \in Props :
              Call("outerjoin", join(Cur, heap, pr, TRUE, FALSE))
DoResetJoinpoint == CanCall /\ Call("reset_joinpoint", reset_joinpoint(Cur, heap))
DoSlice == CanCall /\ \E a \in {Unset, 1} :
              Call("slice", slice(Cur, heap, a, IF a = Unset THEN 1 ELSE a + 1))
DoLimit == CanCall /\ \E n \in {0, 1} : Call("limit", limit(Cur, heap, n))
DoOffset == CanCall /\ \E n \in {0, 1} : Call("offset", offset(Cur, heap, n))
DoDistinct == CanCall /\ Call("distinct", distinct(Cur, heap))
DoFromStatement == CanCall /\ Call("from_statement", from_statement(Cur, heap, "stmt"))
DoSelectFrom == CanCall /\ Call("select_from", select_from(Cur, heap, "sel"))
DoCorrelate == CanCall /\ Call("correlate", correlate(Cur, heap, "users"))
DoParams == CanCall /\ Call("params", params(Cur, heap, "p", 1))
DoOptions == CanCall /\ Call("options", options(Cur, heap, "eagerload"))
DoAddEntity == CanCall /\ \E m \in Mappers, al \in BOOLEAN :
              /\ al => MapperWithPolymorphic(m)
              /\ Call("add_entity", add_entity(Cur, heap, m, al))
DoAddColumn == CanCall /\ \E c \in Columns : Call("add_column", add_column(Cur, heap, c))
DoWithPolymorphic == CanCall /\ \E sp \in {NoName, "*"} :
              Call("with_polymorphic", with_polymorphic(Cur, heap, sp))
DoFromSelf == CanCall /\ \E ents \in {<<>>, <<"Person">>} :
              Call("from_self", from_self(Cur, heap, ents))

NextQuery ==
    \/ DoFilter
    \/ DoOrderBy
    \/ DoGroupBy
    \/ DoHaving
    \/ DoJoin
    \/ DoOuterJoin
    \/ DoResetJoinpoint
    \/ DoSlice
    \/ DoLimit
    \/ DoOffset
    \/ DoDistinct
    \/ DoFromStatement
    \/ DoSelectFrom
    \/ DoCorrelate
    \/ DoParams
    \/ DoOptions
    \/ DoAddEntity
    \/ DoAddColumn
    \/ DoWithPolymorphic
    \/ DoFromSelf

InitQuerySpec == InitAttr /\ InitQuery /\ SessionIdle

SpecQuery == InitQuerySpec /\ [][NextQuery]_vars

(* ---------------- guards of select_from / with_polymorphic ------------ *)
\* a Query is made over one mapped class or over one column expression
InitAnyQuery ==
    \E m \in Mappers \cup Columns :
       /\ queries = <<NewQuery(1)>>
       /\ heap = IF m \in Mappers THEN NewHeap(m) ELSE NewColumnHeap(m)
       /\ qlast = [op |-> "Query", err |-> "ok", src |-> 0, new |-> 1,
                   by |-> <<"Query">>]

\* the calls that write a field __no_criterion_condition or
\* __no_from_condition reads, and the two calls they guard
NextGuards ==
    \/ DoFilter
    \/ DoOrderBy
    \/ DoGroupBy
    \/ DoHaving
    \/ DoJoin
    \/ DoOuterJoin
    \/ DoSlice
    \/ DoLimit
    \/ DoOffset
    \/ DoDistinct
    \/ DoFromStatement
    \/ DoSelectFrom
    \/ DoWithPolymorphic
    \/ DoFromSelf

InitGuardsSpec == InitAttr /\ InitAnyQuery /\ SessionIdle

SpecGuards == InitGuardsSpec /\ [][NextGuards]_vars

(* ------------------------------ lock mode ----------------------------- *)
\* with_lockmode() with a known mode, None or a mode the table lacks
DoWithLockmode == CanCall /\ \E mode \in LockModes \cup {NoName, "bogus"} :
              Call("with_lockmode", with_lockmode(Cur, heap, mode))

\* the caller reads Query.statement of the newest Query; no Query is returned
DoStatement ==
    /\ qlast' = [op |-> "statement", err |-> compile_error(Cur),
                 src |-> Len(queries), new |-> 0, by |-> qlast.by]
    /\ UNCHANGED <<queries, heap>>
    /\ UNCHANGED <<attrvars, sessionvars>>

NextLockmode ==
    \/ DoWithLockmode
    \/ DoStatement
    \/ DoFilter
    \/ DoLimit
    \/ DoFromStatement
    \/ DoFromSelf

InitLockmodeSpec == InitAttr /\ InitAnyQuery /\ SessionIdle

SpecLockmode == InitLockmodeSpec /\ [][NextLockmode]_vars

(* --------------------------- fetching rows ---------------------------- *)
\* primary keys; a row of a cursor is written as the primary key of the
\* object it loads
Idents == 1..MaxIdent
\* the None a terminal operation returns
NoneObj == 0

Min(a, b) == IF a < b THEN a ELSE b

\* the rows a cursor can return: each sequence of at most MaxRows rows
RowSeqs == UNION {[1..n -> Idents] : n \in 0..MaxRows}

\* util.OrderedIdentitySet / util.OrderedSet over the rows of one fetch: each
\* object once, at the place of its first occurrence
RECURSIVE OrderedSet(_)
OrderedSet(rows) ==
    IF rows = <<>>
    THEN <<>>
    ELSE LET init == OrderedSet(SubSeq(rows, 1, Len(rows) - 1))
             x == rows[Len(rows)]
         IN IF \E i \in 1..Len(init) : init[i] = x THEN init ELSE Append(init, x)

\* session.execute of the compiled statement: of the rows FROM and WHERE
\* produce, the ones left by OFFSET and LIMIT; a raw statement is executed as
\* it is
execute(q, rows) ==
    IF q._statement # NoName
    THEN rows
    ELSE LET off == IF q._offset = Unset THEN 0 ELSE q._offset
             upto == IF q._limit = Unset
                     THEN Len(rows)
                     ELSE Min(Len(rows), off + q._limit)
         IN SubSeq(rows, off + 1, upto)

\* variant of iterate_instances that yields the rows unfiltered
iterate_instances_unfiltered(q, h, fetch) == fetch

\* Query.iterate_instances without yield_per: the rows are filtered through an
\* ordered set when the Query has a mapper entity
iterate_instances(q, h, fetch) ==
    IF \E i \in 1..Len(Entities(q, h)) : Entities(q, h)[i].kind = "mapper"
    THEN OrderedSet(fetch)
    ELSE fetch

\* list(query): Query.__iter__ compiles, executes and materializes
list_query(q, h, rows) ==
    IF compile_error(q) # "ok"
    THEN [err |-> compile_error(q), list |-> <<>>]
    ELSE [err |-> "ok", list |-> iterate_instances(q, h, execute(q, rows))]

\* list(query[start:stop]) for start, stop >= 0: Query.__getitem__ calls slice()
\* and lists the Query it returns
getitem_slice(q, h, start, stop, rows) ==
    LET r == slice(q, h, start, stop)
    IN IF r.err # "ok"
       THEN [err |-> r.err, list |-> <<>>]
       ELSE list_query(r.q, r.heap, rows)

\* result of a terminal operation
Returned(obj) == [err |-> "ok", ret |-> obj]
Raised(e) == [err |-> e, ret |-> NoneObj]

\* Query.first()
first(q, h, rows) ==
    LET res == IF q._statement # NoName
               THEN list_query(q, h, rows)
               ELSE getitem_slice(q, h, 0, 1, rows)
    IN IF res.err # "ok"
       THEN Raised(res.err)
       ELSE IF q._statement # NoName
            THEN IF Len(res.list) > 0
                 THEN Returned(res.list[1])
                 ELSE Raised("IndexError")
            ELSE IF Len(res.list) > 0
                 THEN Returned(res.list[1])
                 ELSE Returned(NoneObj)

\* Query.one(): the name "exceptions" it raises through is not bound in the
\* module
one(q, h, rows) ==
    IF q._statement # NoName
    THEN Raised("NameError")
    ELSE LET res == getitem_slice(q, h, 0, 2, rows)
         IN IF res.err # "ok"
            THEN Raised(res.err)
            ELSE IF Len(res.list) = 1
                 THEN Returned(res.list[1])
                 ELSE IF Len(res.list) = 0
                      THEN Raised("NoResultFound")
                      ELSE Raised("MultipleResultsFound")

\* the rows the database can produce for a Query: a Query over one table and
\* no join has no row twice
CursorRows(q) ==
    IF q._from_obj # <<>> \/ q._statement # NoName
    THEN RowSeqs
    ELSE {rows \in RowSeqs :
            \A i, j \in 1..Len(rows) : rows[i] = rows[j] => i = j}

\* a terminal operation on the newest Query, the cursor returning rows; all is
\* what Query.all() returns for the same rows
Terminal(op, rows, res) ==
    /\ xlast' = [op |-> op, err |-> res.err, ret |-> res.ret, rows |-> rows,
                 src |-> Len(queries),
                 all |-> list_query(Cur, heap, rows).list]
    /\ UNCHANGED <<db, session>>
    /\ UNCHANGED <<attrvars, queryvars>>

DoFirst == \E rows \in CursorRows(Cur) : Terminal("first", rows, first(Cur, heap, rows))
DoOne == \E rows \in CursorRows(Cur) : Terminal("one", rows, one(Cur, heap, rows))

\* the generative calls of this specification stop at MaxChain Query objects
NextFetch ==
    \/ Len(queries) < MaxChain /\ DoLimit
    \/ Len(queries) < MaxChain /\ DoOffset
    \/ Len(queries) < MaxChain /\ DoJoin
    \/ Len(queries) < MaxChain /\ DoFromStatement
    \/ DoFirst
    \/ DoOne

InitFetchSpec == InitAttr /\ InitAnyQuery /\ SessionIdle

SpecFetch == InitFetchSpec /\ [][NextFetch]_vars

(* ------------------------- get() and the session ---------------------- *)
\* the primary keys of the rows of the users table
Pks == {7, 10}
\* db[pk] when the row is gone
NoRow == 0

\* an instance as the session sees it: held (the caller has an instance for
\* the key), in_map (it is in the identity map), expired, name (the value in
\* its __dict__, Null when none)
NoInstance ==
    [held |-> FALSE, in_map |-> FALSE, expired |-> FALSE, name |-> Null]

\* InstanceState.__call__ on an expired instance whose row exists: one SELECT
\* loads the current column values and clears the expired flag
refreshed(inst, row) == [inst EXCEPT !.expired = FALSE, !.name = row]

\* session.expunge(instance)
expunged(inst) == [inst EXCEPT !.in_map = FALSE]

\* the mapper's row processor on the row of one key: the instance in the
\* identity map is returned, refreshed from the row when it is expired or
\* the Query populates existing instances; without one, a new instance is
\* made and put into the identity map
load_instance(inst, row, populate) ==
    IF inst.in_map
    THEN IF inst.expired \/ populate THEN refreshed(inst, row) ELSE inst
    ELSE [held |-> TRUE, in_map |-> TRUE, expired |-> FALSE, name |-> row]

\* result of get(): error, what is returned ("None", "same": the instance
\* the identity map held, "new": one made by this call), statements executed,
\* the instance after
GetResult(err, ret, n, inst) == [err |-> err, ret |-> ret, n |-> n, inst |-> inst]

\* variant of the shortcut that returns an expired instance as it is
get_identity_norefresh(inst, row) == GetResult("ok", "same", 0, inst)

\* variant of the shortcut that leaves the instance of a deleted row in the
\* session
get_identity_keep(inst, row) ==
    IF inst.expired
    THEN IF row = NoRow
         THEN GetResult("ok", "None", 1, inst)
         ELSE GetResult("ok", "same", 1, refreshed(inst, row))
    ELSE GetResult("ok", "same", 0, inst)

\* variant of the shortcut that lets the ObjectDeletedError escape
get_identity_raise(inst, row) ==
    IF inst.expired
    THEN IF row = NoRow
         THEN GetResult("ObjectDeletedError", "None", 1, inst)
         ELSE GetResult("ok", "same", 1, refreshed(inst, row))
    ELSE GetResult("ok", "same", 0, inst)

\* Query._get: the instance found in the identity map; an expired one is
\* refreshed, and expunged when the refresh raises ObjectDeletedError
get_identity(inst, row) ==
    IF inst.expired
    THEN IF row = NoRow
         THEN GetResult("ok", "None", 1, expunged(inst))
         ELSE GetResult("ok", "same", 1, refreshed(inst, row))
    ELSE GetResult("ok", "same", 0, inst)

\* Query.get(ident) / Query._get(key, ident) with no keyword arguments, for
\* the instance of the key as the session sees it and the row the table holds
get(q, h, inst, row) ==
    LET shortcut == ~q._populate_existing /\ q._lockmode = NoName
    IN IF Len(Entities(q, h)) > 1
       THEN GetResult("InvalidRequestError", "None", 0, inst)
       ELSE IF shortcut /\ inst.in_map
       THEN get_identity(inst, row)
       ELSE IF no_criterion_condition(q)
       THEN GetResult("InvalidRequestError", "None", 0, inst)
       ELSE IF compile_error(q) # "ok"
       THEN GetResult(compile_error(q), "None", 0, inst)
       ELSE IF row = NoRow
       THEN GetResult("ok", "None", 1, inst)
       ELSE GetResult("ok", IF inst.in_map THEN "same" ELSE "new", 1,
                      load_instance(inst, row, q._populate_existing))

\* an attribute read on an instance in the session: an expired instance is
\* refreshed first, which raises ObjectDeletedError when its row is gone
read_name(inst, row) ==
    IF inst.expired
    THEN IF row = NoRow
         THEN GetResult("ObjectDeletedError", "None", 1, inst)
         ELSE GetResult("ok", "same", 1, refreshed(inst, row))
    ELSE GetResult("ok", "same", 0, inst)

\* the operation just made on the instance of one key, by the Query of this
\* session: pre and row are the instance and the table row before it, prev
\* the operation made before this one
SessionOp(op, pk, res) ==
    /\ session' = [session EXCEPT ![pk] = res.inst]
    /\ xlast' = [op |-> op, ident |-> pk, err |-> res.err, ret |-> res.ret,
                 n |-> res.n, pre |-> session[pk], row |-> db[pk],
                 prev |-> [op |-> xlast.op, ident |-> xlast.ident,
                           ret |-> xlast.ret, n |-> xlast.n]]
    /\ UNCHANGED <<attrvars, queryvars>>

DoGetIdent == \E pk \in Pks :
    /\ SessionOp("get", pk, get(Cur, heap, session[pk], db[pk]))
    /\ UNCHANGED db

DoReadName == \E pk \in Pks :
    /\ session[pk].in_map
    /\ SessionOp("read", pk, read_name(session[pk], db[pk]))
    /\ UNCHANGED db

\* session.expire(instance)
DoExpire == \E pk \in Pks :
    /\ session[pk].in_map
    /\ SessionOp("expire", pk,
                 GetResult("ok", "None", 0,
                           [session[pk] EXCEPT !.expired = TRUE, !.name = Null]))
    /\ UNCHANGED db

\* session.add(instance) of an instance that was expunged
DoAdd == \E pk \in Pks :
    /\ session[pk].held
    /\ ~session[pk].in_map
    /\ SessionOp("add", pk,
                 GetResult("ok", "None", 0, [session[pk] EXCEPT !.in_map = TRUE]))
    /\ UNCHANGED db

\* another connection deletes the row of a key
DoRowDelete == \E pk \in Pks :
    /\ db[pk] # NoRow
    /\ db' = [db EXCEPT ![pk] = NoRow]
    /\ SessionOp("row_delete", pk, GetResult("ok", "None", 1, session[pk]))

\* another connection changes the row of a key
DoRowUpdate == \E pk \in Pks, v \in Vals :
    /\ db[pk] # NoRow
    /\ db[pk] # v
    /\ db' = [db EXCEPT ![pk] = v]
    /\ SessionOp("row_update", pk, GetResult("ok", "None", 1, session[pk]))

NextSession ==
    \/ DoGetIdent
    \/ DoReadName
    \/ DoExpire
    \/ DoAdd
    \/ DoRowDelete
    \/ DoRowUpdate

\* one Query over User, as built, or after one with_lockmode() or
\* populate_existing() call; every row present, no instance loaded
InitSession ==
    /\ \E mode \in {NoName, "update", "bogus"}, pop \in BOOLEAN :
          /\ mode # NoName => ~pop
          /\ queries = <<[NewQuery(1) EXCEPT !._lockmode = mode,
                                             !._populate_existing = pop]>>
    /\ heap = NewHeap("User")
    /\ qlast = [op |-> "Query", err |-> "ok", src |-> 0, new |-> 1,
                by |-> <<"Query">>]
    /\ db \in [Pks -> Vals]
    /\ session = [pk \in Pks |-> NoInstance]
    /\ xlast = [op |-> "none", ident |-> 0, err |-> "ok", ret |-> "None",
                n |-> 0, pre |-> NoInstance, row |-> NoRow,
                prev |-> [op |-> "none", ident |-> 0, ret |-> "None", n |-> 0]]

InitSessionSpec == InitAttr /\ InitSession

SpecSession == InitSessionSpec /\ [][NextSession]_vars

(* ------------------ in-memory evaluator (orm/evaluator.py) ------------ *)
\* a clause element: __visit_name__ (kind), operator, key of a column, value
\* of a bind parameter (Null for None), sub-clauses
Clause(kind, operator, key, value, clauses) ==
    [kind |-> kind, operator |-> operator, key |-> key, value |-> value,
     clauses |-> clauses]

\* self.whereclause of a Query without criterion
NoClause == Clause("None", NoName, NoName, Null, <<>>)
column(key) == Clause("column", NoName, key, Null, <<>>)
bindparam(value) == Clause("bindparam", NoName, NoName, value, <<>>)
null == Clause("null", NoName, NoName, Null, <<>>)
binary(left, operator, right) == Clause("binary", operator, NoName, Null, <<left, right>>)
clauselist(operator, clauses) == Clause("clauselist", operator, NoName, Null, clauses)
unary(operator, element) == Clause("unary", operator, NoName, Null, <<element>>)
grouping(element) == Clause("grouping", NoName, NoName, Null, <<element>>)
function(name, element) == Clause("function", name, NoName, Null, <<element>>)

straight_ops ==
    {"add", "mul", "sub", "div", "mod", "truediv", "lt", "le", "ne", "gt",
     "ge", "eq"}

\* the visit_* methods EvaluatorCompiler defines
VisitNames ==
    {"grouping", "null", "column", "clauselist", "binary", "unary", "bindparam"}

\* a Python value: None, a bool or an int
PyNone == [t |-> "null", v |-> 0]
PyBool(b) == [t |-> "bool", v |-> IF b THEN 1 ELSE 0]
PyInt(n) == [t |-> "int", v |-> n]
\* an attribute or column value, Null standing for None
ToPy(a) == IF a = Null THEN PyNone ELSE PyInt(a)
FromPy(val) == IF val.t = "null" THEN Null ELSE val.v
\* bool(value)
Truthy(val) == val.t # "null" /\ val.v # 0

\* operator(left, right) for the straight operators, on two values not None;
\* the float of a true division is kept in hundredths
ApplyOp(op, l, r) ==
    CASE op = "add" -> PyInt(l.v + r.v)
      [] op = "sub" -> PyInt(l.v - r.v)
      [] op = "mul" -> PyInt(l.v * r.v)
      [] op = "div" -> PyInt(l.v \div r.v)
      [] op = "mod" -> PyInt(l.v % r.v)
      [] op = "truediv" -> [t |-> "float", v |-> (100 * l.v) \div r.v]
      [] op = "lt" -> PyBool(l.v < r.v)
      [] op = "le" -> PyBool(l.v <= r.v)
      [] op = "ne" -> PyBool(l.v # r.v)
      [] op = "gt" -> PyBool(l.v > r.v)
      [] op = "ge" -> PyBool(l.v >= r.v)
      [] op = "eq" -> PyBool(l.v = r.v)

\* the first error in a sequence of outcomes, "ok" when there is none
RECURSIVE FirstError(_)
FirstError(outs) ==
    IF outs = <<>> THEN "ok"
    ELSE IF Head(outs) # "ok" THEN Head(outs) ELSE FirstError(Tail(outs))

\* EvaluatorCompiler.process(clause): "ok" when it returns an evaluator, else
\* the exception it raises
RECURSIVE process(_)
process(clause) ==
    LET subs == FirstError([i \in 1..Len(clause.clauses) |->
                               process(clause.clauses[i])])
    IN IF clause.kind = "None"
       THEN "AttributeError"
       ELSE IF clause.kind \notin VisitNames
       THEN "UnevaluatableError"
       ELSE CASE clause.kind \in {"null", "column", "bindparam"} -> "ok"
              [] clause.kind = "grouping" -> subs
              [] clause.kind = "clauselist" ->
                   IF subs # "ok" THEN subs
                   ELSE IF clause.operator \in {"or_", "and_"} THEN "ok"
                   ELSE "UnboundLocalError"
              [] clause.kind = "binary" ->
                   IF subs # "ok" THEN subs
                   ELSE IF clause.operator = "isnot" THEN "ok"
                   ELSE IF clause.operator \in straight_ops THEN "ok"
                   ELSE "UnevaluatableError"
              [] clause.kind = "unary" ->
                   IF subs # "ok" THEN subs
                   ELSE IF clause.operator = "inv" THEN "ok"
                   ELSE "UnevaluatableError"

\* an instance of the mapped class in the session: in the identity map or
\* not, its attribute values, and the attributes that are expired
NoObj == [in_map |-> FALSE, x |-> Null, y |-> Null, expired |-> {}]
\* a row of the table, or the place of a deleted one
NoRecord == [present |-> FALSE, x |-> Null, y |-> Null]
Row(x, y) == [present |-> TRUE, x |-> x, y |-> y]

\* the state an evaluator runs in: the instance, its row, the statements
\* executed so far and the error raised
EvalState(obj, row, n) == [obj |-> obj, row |-> row, n |-> n, err |-> "ok"]

\* the instance with every expired attribute loaded from the row
loaded(obj, row) ==
    [obj EXCEPT !.x = IF "x" \in obj.expired THEN row.x ELSE obj.x,
                !.y = IF "y" \in obj.expired THEN row.y ELSE obj.y,
                !.expired = {}]

\* operator.attrgetter(key)(obj): an expired attribute loads the expired
\* attributes with one SELECT, which raises ObjectDeletedError without a row
attrgetter(key, st) ==
    IF st.err # "ok" THEN <<PyNone, st>>
    ELSE IF key \in st.obj.expired
    THEN IF ~st.row.present
         THEN <<PyNone, [st EXCEPT !.err = "ObjectDeletedError", !.n = st.n + 1]>>
         ELSE <<ToPy(loaded(st.obj, st.row)[key]),
                [st EXCEPT !.obj = loaded(st.obj, st.row), !.n = st.n + 1]>>
    ELSE <<ToPy(st.obj[key]), st>>

\* the evaluator process(clause) returns, applied to an instance: the value
\* and the state after
RECURSIVE evaluate(_, _), evaluate_or(_, _, _), evaluate_and(_, _)
evaluate(clause, st) ==
    CASE clause.kind = "null" -> <<PyNone, st>>
      [] clause.kind = "bindparam" -> <<ToPy(clause.value), st>>
      [] clause.kind = "column" -> attrgetter(clause.key, st)
      [] clause.kind = "grouping" -> evaluate(clause.clauses[1], st)
      [] clause.kind = "clauselist" ->
           IF clause.operator = "or_"
           THEN evaluate_or(clause.clauses, FALSE, st)
           ELSE evaluate_and(clause.clauses, st)
      [] clause.kind = "binary" ->
           LET l == evaluate(clause.clauses[1], st)
               r == evaluate(clause.clauses[2], l[2])
           IN IF r[2].err # "ok" THEN <<PyNone, r[2]>>
              ELSE IF clause.operator = "isnot"
              THEN <<PyBool(l[1] # r[1]), r[2]>>
              ELSE IF l[1].t = "null" \/ r[1].t = "null"
              THEN <<PyNone, r[2]>>
              ELSE <<ApplyOp(clause.operator, l[1], r[1]), r[2]>>
      [] clause.kind = "unary" ->
           LET e == evaluate(clause.clauses[1], st)
           IN IF e[1].t = "null" THEN e ELSE <<PyBool(~Truthy(e[1])), e[2]>>

\* visit_clauselist, operators.or_
evaluate_or(clauses, has_null, st) ==
    IF clauses = <<>>
    THEN <<IF has_null THEN PyNone ELSE PyBool(FALSE), st>>
    ELSE LET e == evaluate(Head(clauses), st)
         IN IF e[2].err # "ok" THEN <<PyNone, e[2]>>
            ELSE IF Truthy(e[1]) THEN <<PyBool(TRUE), e[2]>>
            ELSE evaluate_or(Tail(clauses), has_null \/ e[1].t = "null", e[2])

\* visit_clauselist, operators.and_
evaluate_and(clauses, st) ==
    IF clauses = <<>>
    THEN <<PyBool(TRUE), st>>
    ELSE LET e == evaluate(Head(clauses), st)
         IN IF e[2].err # "ok" THEN <<PyNone, e[2]>>
            ELSE IF ~Truthy(e[1])
            THEN <<IF e[1].t = "null" THEN PyNone ELSE PyBool(FALSE), e[2]>>
            ELSE evaluate_and(Tail(clauses), e[2])

\* what the database makes of a clause on one row (SQL three-valued logic)
RECURSIVE SqlEval(_, _)
SqlEval(clause, row) ==
    LET sub(i) == SqlEval(clause.clauses[i], row)
        vals == {sub(i) : i \in 1..Len(clause.clauses)}
    IN CASE clause.kind = "null" -> PyNone
         [] clause.kind = "bindparam" -> ToPy(clause.value)
         [] clause.kind = "column" -> ToPy(row[clause.key])
         [] clause.kind = "grouping" -> sub(1)
         [] clause.kind = "function" -> sub(1)
         [] clause.kind = "unary" ->
              IF sub(1).t = "null" THEN PyNone ELSE PyBool(~Truthy(sub(1)))
         [] clause.kind = "clauselist" /\ clause.operator = "and_" ->
              IF \E v \in vals : v.t # "null" /\ ~Truthy(v) THEN PyBool(FALSE)
              ELSE IF PyNone \in vals THEN PyNone ELSE PyBool(TRUE)
         [] clause.kind = "clauselist" /\ clause.operator = "or_" ->
              IF \E v \in vals : Truthy(v) THEN PyBool(TRUE)
              ELSE IF PyNone \in vals THEN PyNone ELSE PyBool(FALSE)
         [] clause.kind = "binary" /\ clause.operator = "is_" ->
              PyBool(sub(1) = sub(2))
         [] clause.kind = "binary" /\ clause.operator = "isnot" ->
              PyBool(sub(1) # sub(2))
         [] clause.kind = "binary" /\ clause.operator = "in_op" ->
              IF sub(1).t = "null" THEN PyNone
              ELSE PyBool(\E i \in 1..Len(clause.clauses[2].clauses[1].clauses) :
                     SqlEval(clause.clauses[2].clauses[1].clauses[i], row) = sub(1))
         [] clause.kind = "binary" /\ clause.operator = "like_op" ->
              IF sub(1).t = "null" \/ sub(2).t = "null" THEN PyNone
              ELSE PyBool(sub(1) = sub(2))
         [] clause.kind = "binary" /\ clause.operator \in straight_ops ->
              IF sub(1).t = "null" \/ sub(2).t = "null" THEN PyNone
              ELSE ApplyOp(clause.operator, sub(1), sub(2))

\* the rows a WHERE clause selects; none of a deleted row, every row without
\* a clause
Selects(where, row) ==
    /\ row.present
    /\ where.kind = "None" \/ Truthy(SqlEval(where, row))

(* -------------------- Query.update() / Query.delete() ----------------- *)
\* Query.whereclause: the criterion of the Query, None without one
whereclause(q) ==
    IF Len(q._criterion) = 0 THEN NoClause
    ELSE IF Len(q._criterion) = 1 THEN q._criterion[1].clause
    ELSE clauselist("and_", [i \in 1..Len(q._criterion) |-> q._criterion[i].clause])

\* the test update() and delete() make on the compiled statement: one FROM
\* element, and that a Table
single_table(q, h) ==
    LET froms == Statement(q, h).froms
    IN /\ Len(froms) = 1
       /\ froms[1].kind = "base"
       /\ ~froms[1].aliased
       /\ froms[1].target \in {"users", "people", "addresses"}

\* one item of the values dict of update(): the key and the clause
\* _literal_as_binds makes of the value
Item(key, value) == [key |-> key, value |-> value]

\* session.expire(instance, attribute_names)
expire(obj, keys) ==
    [obj EXCEPT !.x = IF "x" \in keys THEN Null ELSE obj.x,
                !.y = IF "y" \in keys THEN Null ELSE obj.y,
                !.expired = obj.expired \cup keys]

\* what the UPDATE statement makes of one row: every value is computed from
\* the row as it was
updated_row(where, values, row) ==
    LET new(k) == IF \E i \in 1..Len(values) : values[i].key = k
                  THEN FromPy(SqlEval(
                         values[CHOOSE i \in 1..Len(values) : values[i].key = k].value,
                         row))
                  ELSE row[k]
    IN IF Selects(where, row) THEN Row(new("x"), new("y")) ELSE row

\* Query.update: `for key,eval_value in value_evaluators.items():
\* obj.__dict__[key] = eval_value(obj)`, the items in the order given
RECURSIVE set_values(_, _)
set_values(values, st) ==
    IF values = <<>> \/ st.err # "ok" THEN st
    ELSE LET e == evaluate(Head(values).value, st)
         IN IF e[2].err # "ok" THEN e[2]
            ELSE set_values(Tail(values),
                   [e[2] EXCEPT !.obj = [@ EXCEPT ![Head(values).key] = FromPy(e[1]),
                                                  !.expired = @ \ {Head(values).key}]])

\* Query.update, 'evaluate': the loop over the identity map, in the order ord
RECURSIVE update_evaluate(_, _, _, _, _, _)
update_evaluate(where, values, ord, sess, d, n) ==
    IF ord = <<>> THEN [err |-> "ok", n |-> n, session |-> sess]
    ELSE IF ~sess[Head(ord)].in_map
    THEN update_evaluate(where, values, Tail(ord), sess, d, n)
    ELSE LET pk == Head(ord)
             c == evaluate(where, EvalState(sess[pk], d[pk], n))
             st == IF c[2].err = "ok" /\ Truthy(c[1])
                   THEN set_values(values, c[2])
                   ELSE c[2]
             sess2 == [sess EXCEPT ![pk] = st.obj]
         IN IF st.err # "ok"
            THEN [err |-> st.err, n |-> st.n, session |-> sess2]
            ELSE update_evaluate(where, values, Tail(ord), sess2, d, st.n)

\* result of update() or delete(): the error, the synchronization made
\* ("None" when the call raised before it), the SELECT statements executed,
\* the session and the table after
SyncResult(err, sync, n, sess, d) ==
    [err |-> err, sync |-> sync, n |-> n, session |-> sess, db |-> d]

\* Query.update(values, synchronize_session='evaluate')
update(q, h, values, ord, sess, d) ==
    LET where == whereclause(q)
        compiled == FirstError(<<process(where)>> \o
                       [i \in 1..Len(values) |-> process(values[i].value)])
        d2 == [pk \in DOMAIN d |-> updated_row(where, values, d[pk])]
        keys == {values[i].key : i \in 1..Len(values)}
    IN IF compile_error(q) # "ok"
       THEN SyncResult(compile_error(q), "None", 0, sess, d)
       ELSE IF ~single_table(q, h)
       THEN SyncResult("ArgumentError", "None", 0, sess, d)
       ELSE IF compiled \notin {"ok", "UnevaluatableError"}
       THEN SyncResult(compiled, "None", 0, sess, d)
       ELSE IF compiled = "ok"
       THEN LET r == update_evaluate(where, values, ord, sess, d2, 0)
            IN SyncResult(r.err, "evaluate", r.n, r.session, d2)
       ELSE SyncResult("ok", "expire", 1,
               [pk \in DOMAIN sess |->
                   IF Selects(where, d[pk]) /\ sess[pk].in_map
                   THEN expire(sess[pk], keys) ELSE sess[pk]],
               d2)

\* Query.delete, 'evaluate': the instances of the identity map the condition
\* holds of, collected in the order ord
RECURSIVE delete_evaluate(_, _, _, _, _, _)
delete_evaluate(where, ord, sess, d, n, found) ==
    IF ord = <<>>
    THEN [err |-> "ok", n |-> n,
          session |-> [pk \in DOMAIN sess |->
                          IF pk \in found THEN [sess[pk] EXCEPT !.in_map = FALSE]
                          ELSE sess[pk]]]
    ELSE IF ~sess[Head(ord)].in_map
    THEN delete_evaluate(where, Tail(ord), sess, d, n, found)
    ELSE LET pk == Head(ord)
             c == evaluate(where, EvalState(sess[pk], d[pk], n))
             sess2 == [sess EXCEPT ![pk] = c[2].obj]
         IN IF c[2].err # "ok"
            THEN [err |-> c[2].err, n |-> c[2].n, session |-> sess2]
            ELSE delete_evaluate(where, Tail(ord), sess2, d, c[2].n,
                                 IF Truthy(c[1]) THEN found \cup {pk} ELSE found)

\* Query.delete(synchronize_session='evaluate')
delete(q, h, ord, sess, d) ==
    LET where == whereclause(q)
        compiled == process(where)
        d2 == [pk \in DOMAIN d |-> IF Selects(where, d[pk]) THEN NoRecord ELSE d[pk]]
    IN IF compile_error(q) # "ok"
       THEN SyncResult(compile_error(q), "None", 0, sess, d)
       ELSE IF ~single_table(q, h)
       THEN SyncResult("ArgumentError", "None", 0, sess, d)
       ELSE IF compiled \notin {"ok", "UnevaluatableError"}
       THEN SyncResult(compiled, "None", 0, sess, d)
       ELSE IF compiled = "ok"
       THEN LET r == delete_evaluate(where, ord, sess, d2, 0, {})
            IN SyncResult(r.err, "evaluate", r.n, r.session, d2)
       ELSE SyncResult("ok", "fetch", 1,
               [pk \in DOMAIN sess |->
                   IF Selects(where, d[pk]) /\ sess[pk].in_map
                   THEN [sess[pk] EXCEPT !.in_map = FALSE] ELSE sess[pk]],
               d2)

\* the criteria given to filter(): x == 1, x == 1 OR y IS NOT NULL,
\* x LIKE 1, x IS NULL, x IN (1, 2), abs(x) > -1
Wheres ==
    {binary(column("x"), "eq", bindparam(1)),
     clauselist("or_", <<binary(column("x"), "eq", bindparam(1)),
                         binary(column("y"), "isnot", null)>>),
     binary(column("x"), "like_op", bindparam(1)),
     binary(column("x"), "is_", null),
     binary(column("x"), "in_op",
            grouping(clauselist("comma_op", <<bindparam(1), bindparam(2)>>))),
     binary(function("abs", column("x")), "gt", bindparam(0 - 1))}

\* the values given to update(), in the orders the dict can yield its items:
\* {y: 2}, {x: y}, {x: y, y: x}, {y: abs(x)}
ValueDicts ==
    {<<Item("y", bindparam(2))>>,
     <<Item("x", column("y"))>>,
     <<Item("x", column("y")), Item("y", column("x"))>>,
     <<Item("y", column("x")), Item("x", column("y"))>>,
     <<Item("y", function("abs", column("x")))>>}

\* the orders in which the identity map can yield its instances
MapOrders == {<<7, 10>>, <<10, 7>>}

\* the Query the call is made on: Query(User), with one filter() or none
FilteredQueries ==
    {Cur} \cup {filter(Cur, heap, w).q : w \in Wheres}

\* update() or delete() just made, on the Query q
SyncOp(op, q, values, res) ==
    /\ session' = res.session
    /\ db' = res.db
    /\ xlast' = [op |-> op, err |-> res.err, sync |-> res.sync, n |-> res.n,
                 where |-> whereclause(q), values |-> values,
                 ops |-> xlast.ops + 1]
    /\ UNCHANGED <<attrvars, queryvars>>

DoQueryUpdate == \E q \in FilteredQueries, values \in ValueDicts, ord \in MapOrders :
    /\ xlast.ops < MaxOps
    /\ SyncOp("update", q, values, update(q, heap, values, ord, session, db))

DoQueryDelete == \E q \in FilteredQueries, ord \in MapOrders :
    /\ xlast.ops < MaxOps
    /\ SyncOp("delete", q, <<>>, delete(q, heap, ord, session, db))

\* Query(User).get(pk): the instance of an existing row is loaded into the
\* identity map, or the one there refreshed
DoLoad == \E pk \in Pks :
    /\ xlast.ops < MaxOps
    /\ db[pk].present
    /\ \/ ~session[pk].in_map
       \/ session[pk].expired # {}
    /\ session' = [session EXCEPT ![pk] =
                      IF session[pk].in_map
                      THEN loaded(session[pk], db[pk])
                      ELSE [in_map |-> TRUE, x |-> db[pk].x, y |-> db[pk].y,
                            expired |-> {}]]
    /\ xlast' = [op |-> "get", err |-> "ok", sync |-> "None", n |-> 1,
                 where |-> NoClause, values |-> <<>>, ops |-> xlast.ops + 1]
    /\ UNCHANGED db
    /\ UNCHANGED <<attrvars, queryvars>>

NextUpdate ==
    \/ DoQueryUpdate
    \/ DoQueryDelete
    \/ DoLoad

\* Query(User) in a session with no instance loaded, over a table of two rows
InitUpdate ==
    /\ queries = <<NewQuery(1)>>
    /\ heap = NewHeap("User")
    /\ qlast = [op |-> "Query", err |-> "ok", src |-> 0, new |-> 1,
                by |-> <<"Query">>]
    /\ db \in [Pks -> {Row(x, y) : x \in Vals, y \in Vals \cup {Null}}]
    /\ session = [pk \in Pks |-> NoObj]
    /\ xlast = [op |-> "none", err |-> "ok", sync |-> "None", n |-> 0,
                where |-> NoClause, values |-> <<>>, ops |-> 0]

InitUpdateSpec == InitAttr /\ InitUpdate

SpecUpdate == InitUpdateSpec /\ [][NextUpdate]_vars

(* ------------- deferred column loading (orm/strategies.py) ------------ *)
\* the deferred columns of the mapped class, and the group of each: a and b
\* share a group, c has none
DeferredCols == {"a", "b", "c"}
Group(key) == IF key \in {"a", "b"} THEN "g" ELSE NoName

\* the primary key attribute of an instance that was never saved
NoPk == 0 - 1
\* the primary keys of the instances: none, 0 and 7
PkVals == {NoPk, 0, 7}

\* one instance: its primary key attribute, whether it is bound to a session,
\* per deferred column the slot ("deferred": the loader is installed,
\* "plain": a value is) and the value in __dict__, and, for the reads made
\* since it was loaded, the columns read and the SELECTs each column's reads
\* executed
Deferred(pk, attached) ==
    [pk |-> pk, attached |-> attached,
     slot |-> [k \in DeferredCols |-> "deferred"],
     val |-> [k \in DeferredCols |-> Null],
     cost |-> [k \in DeferredCols |-> 0],
     read |-> {}]

\* DeferredColumnLoader.setup_loader: the lazyload it returns, called for
\* the column key of an instance whose row is given. `if not attr: return
\* None` holds of the primary key None and of the primary key 0. The loop
\* over the group sets every column of it (`prop is self` compares a
\* property with the strategy and never holds).
lazyload(key, inst, row) ==
    IF inst.pk = NoPk \/ inst.pk = 0
    THEN GetResult("ok", Null, 0, inst)
    ELSE IF ~inst.attached
    THEN GetResult("InvalidRequestError", Null, 0, inst)
    ELSE IF Group(key) # NoName
    THEN GetResult("ok", row[key], 1,
            [inst EXCEPT !.slot = [k \in DeferredCols |->
                                      IF Group(k) = Group(key) THEN "plain" ELSE @[k]],
                         !.val = [k \in DeferredCols |->
                                      IF Group(k) = Group(key) THEN row[k] ELSE @[k]]])
    ELSE GetResult("ok", row[key], 1, inst)

\* a read of the attribute: a deferred slot invokes its callable, stores the
\* value it returns and is replaced by a plain one; an error leaves it
read_deferred(key, inst, row) ==
    IF inst.slot[key] = "deferred"
    THEN LET r == lazyload(key, inst, row)
         IN IF r.err # "ok" THEN r
            ELSE GetResult("ok", r.ret, r.n,
                    [r.inst EXCEPT !.slot[key] = "plain", !.val[key] = r.ret,
                                   !.cost[key] = @ + r.n,
                                   !.read = @ \cup {key}])
    ELSE GetResult("ok", inst.val[key], 0, [inst EXCEPT !.read = @ \cup {key}])

\* an operation on the instance
InstanceOp(op, key, res) ==
    /\ session' = res.inst
    /\ xlast' = [op |-> op, key |-> key, err |-> res.err, ret |-> res.ret,
                 n |-> res.n]
    /\ UNCHANGED <<attrvars, queryvars>>

DoReadDeferred == \E key \in DeferredCols :
    /\ InstanceOp("read", key, read_deferred(key, session, db))
    /\ UNCHANGED db

\* session.expunge(instance) and session.add(instance) (an instance that was
\* never saved is left alone)
DoDetach ==
    /\ session.attached
    /\ session.pk # NoPk
    /\ InstanceOp("expunge", NoName,
                  GetResult("ok", Null, 0, [session EXCEPT !.attached = FALSE]))
    /\ UNCHANGED db

DoAttach ==
    /\ ~session.attached
    /\ InstanceOp("add", NoName,
                  GetResult("ok", Null, 0, [session EXCEPT !.attached = TRUE]))
    /\ UNCHANGED db

\* the instance is loaded again from its row: process_row installs the
\* loaders anew
DoReload ==
    /\ session.attached
    /\ session.pk # NoPk
    /\ session.read # {}
    /\ InstanceOp("reload", NoName,
                  GetResult("ok", Null, 1, Deferred(session.pk, TRUE)))
    /\ UNCHANGED db

NextDeferred ==
    \/ DoReadDeferred
    \/ DoDetach
    \/ DoAttach
    \/ DoReload

\* an instance just loaded from its row, or one that was never saved
InitDeferred ==
    /\ queries = <<NewQuery(1)>>
    /\ heap = NewHeap("User")
    /\ qlast = [op |-> "Query", err |-> "ok", src |-> 0, new |-> 1,
                by |-> <<"Query">>]
    /\ \E pk \in PkVals :
          /\ session = Deferred(pk, TRUE)
          /\ IF pk = NoPk
             THEN db = [a |-> Null, b |-> Null, c |-> Null]
             ELSE db \in [DeferredCols -> Vals \cup {Null}]
    /\ xlast = [op |-> "none", key |-> NoName, err |-> "ok", ret |-> Null, n |-> 0]

InitDeferredSpec == InitAttr /\ InitDeferred

SpecDeferred == InitDeferredSpec /\ [][NextDeferred]_vars

(* ------------- eager relation loading (orm/strategies.py) ------------- *)
\* the parent instances a joined statement can return rows of
EagerParents == {1, 2}
\* a row of the joined statement: the parent's identity and the child's,
\* NoneObj when the outer join found no child
JoinedRow(parent, child) == [parent |-> parent, child |-> child]
JoinedRows ==
    UNION {[1..n -> {JoinedRow(p, c) : p \in EagerParents, c \in 0..MaxIdent}] :
              n \in 0..MaxRows}

\* one load operation (SelectionContext): the rows of the cursor and the
\* number processed; whether the relation has uselist, and whether the lead
\* mapper of the context has aliased clauses for it; the lists made so far;
\* per parent the kind of slot of the attribute ("none", "lazy": the lazy
\* loader's callable, "list", "scalar") and the list or instance it holds;
\* selectcontext.attributes: per parent the list its appender wraps (0: no
\* entry); selectcontext.identity_map; selectcontext.recursion_stack
NewRun(rows, uselist, aliased) ==
    [rows |-> rows, pos |-> 0, uselist |-> uselist, aliased |-> aliased,
     lists |-> <<>>,
     slot |-> [p \in EagerParents |-> "none"],
     holds |-> [p \in EagerParents |-> 0],
     attributes |-> [p \in EagerParents |-> 0],
     identity_map |-> {},
     recursion_stack |-> FALSE]

\* util.UniqueAppender.append through mapper._instance(selectcontext,
\* decorated_row, result_list): the child of the row is appended unless the
\* row has no child or the list has it
unique_append(list, child) ==
    IF child = NoneObj \/ \E i \in 1..Len(list) : list[i] = child
    THEN list
    ELSE Append(list, child)

\* variant of process_row that makes a new list and appender for every row
process_row_always_new(run, instance, child, isnew) ==
    IF run.recursion_stack THEN run
    ELSE IF ~run.aliased
    THEN IF isnew THEN [run EXCEPT !.slot[instance] = "lazy", !.holds[instance] = 0]
         ELSE run
    ELSE IF ~run.uselist
    THEN IF isnew
         THEN [run EXCEPT !.slot[instance] = "scalar", !.holds[instance] = child]
         ELSE run
    ELSE LET run1 == [run EXCEPT !.lists = Append(@, <<>>),
                                 !.slot[instance] = "list",
                                 !.holds[instance] = Len(run.lists) + 1,
                                 !.attributes[instance] = Len(run.lists) + 1]
             result_list == run1.attributes[instance]
         IN [run1 EXCEPT !.lists[result_list] = unique_append(@, child)]

\* EagerLoader.process_row(selectcontext, instance, row, identitykey, isnew)
\* for the relation of the parent instance; child is the identity the
\* decorated row gives. A row of a new instance makes a blank list and its
\* appender in the scratch map; every row appends through the appender found
\* there.
process_row(run, instance, child, isnew) ==
    IF run.recursion_stack THEN run
    ELSE IF ~run.aliased
    THEN IF isnew THEN [run EXCEPT !.slot[instance] = "lazy", !.holds[instance] = 0]
         ELSE run
    ELSE IF ~run.uselist
    THEN IF isnew
         THEN [run EXCEPT !.slot[instance] = "scalar", !.holds[instance] = child]
         ELSE run
    ELSE LET run1 == IF isnew
                     THEN [run EXCEPT !.lists = Append(@, <<>>),
                                      !.slot[instance] = "list",
                                      !.holds[instance] = Len(run.lists) + 1,
                                      !.attributes[instance] = Len(run.lists) + 1]
                     ELSE run
             result_list == run1.attributes[instance]
         IN [run1 EXCEPT !.lists[result_list] = unique_append(@, child)]

\* the mapper's row processor for the next row of the cursor: the parent is
\* new when the load operation has not seen its identity; its strategies get
\* the row
instance_row(run) ==
    LET row == run.rows[run.pos + 1]
        isnew == row.parent \notin run.identity_map
        run1 == [run EXCEPT !.pos = @ + 1,
                            !.identity_map = @ \cup {row.parent}]
    IN process_row(run1, row.parent, row.child, isnew)

\* the children the table holds for a parent: the ones the joined rows show
ChildrenIn(rows, parent) ==
    LET Keep(row) == row.parent = parent /\ row.child # NoneObj
        sel == SelectSeq(rows, Keep)
    IN OrderedSet([i \in 1..Len(sel) |-> sel[i].child])

\* the collection the attribute of a parent gives, << >> when it holds none
Collection(run, parent) ==
    IF run.slot[parent] = "list" THEN run.lists[run.holds[parent]] ELSE <<>>

\* a read of the relation attribute after the load: a lazy slot fetches the
\* children with one SELECT and is replaced by the list
read_relation(run, parent) ==
    IF run.slot[parent] = "lazy"
    THEN [n |-> 1,
          run |-> [run EXCEPT !.lists = Append(@, ChildrenIn(run.rows, parent)),
                              !.slot[parent] = "list",
                              !.holds[parent] = Len(run.lists) + 1]]
    ELSE [n |-> 0, run |-> run]

\* an operation of the load
RunOp(op, parent, n, run) ==
    /\ session' = run
    /\ xlast' = [op |-> op, parent |-> parent, n |-> n]
    /\ UNCHANGED db
    /\ UNCHANGED <<attrvars, queryvars>>

DoProcessRow ==
    /\ session.pos < Len(session.rows)
    /\ RunOp("row", session.rows[session.pos + 1].parent, 0, instance_row(session))

DoReadRelation == \E parent \in EagerParents :
    /\ session.pos = Len(session.rows)
    /\ parent \in session.identity_map
    /\ RunOp("read", parent, read_relation(session, parent).n,
             read_relation(session, parent).run)

NextEager ==
    \/ DoProcessRow
    \/ DoReadRelation

\* a statement was executed and its rows wait in the cursor
InitEager ==
    /\ queries = <<NewQuery(1)>>
    /\ heap = NewHeap("User")
    /\ qlast = [op |-> "Query", err |-> "ok", src |-> 0, new |-> 1,
                by |-> <<"Query">>]
    /\ db = <<>>
    /\ \E rows \in JoinedRows, uselist \in BOOLEAN, aliased \in BOOLEAN :
          /\ uselist \/ aliased
          /\ session = NewRun(rows, uselist, aliased)
    /\ xlast = [op |-> "none", parent |-> 0, n |-> 0]

InitEagerSpec == InitAttr /\ InitEager

SpecEager == InitEagerSpec /\ [][NextEager]_vars

(* ---------- statement shapes: eager joins and row limiting ------------ *)
\* the most children a parent row has
MaxKids == 2
\* the rows of the parent table the criterion selects, in the order the
\* database returns them: for each the number of its child rows
ParentTables == UNION {[1..n -> 0..MaxKids] : n \in 0..MaxRows}

\* Query._select_args: the row limiting arguments of a select
select_args(q) ==
    [limit |-> q._limit, offset |-> q._offset, distinct |-> q._distinct]
NoArgs == [limit |-> Unset, offset |-> Unset, distinct |-> FALSE]

\* variant of _should_nest_selectable that does not look at the limit
should_nest_unless_limit(q) ==
    select_args(q).offset # Unset \/ select_args(q).distinct

\* Query._should_nest_selectable
should_nest_selectable(q) ==
    \/ select_args(q).limit # Unset
    \/ select_args(q).offset # Unset
    \/ select_args(q).distinct

\* Query._compile_context for a Query without a statement of its own: eager
\* says whether the entities' strategies put joins into context.eager_joins.
\* inner is the select wrapped inside when the statement is nested, args the
\* row limiting of the statement itself, joined whether the eager joins are
\* in its FROM
compile_context(q, eager) ==
    IF eager /\ should_nest_selectable(q)
    THEN [nested |-> TRUE, inner |-> select_args(q), args |-> NoArgs,
          joined |-> TRUE, func |-> "", cols |-> "pk"]
    ELSE [nested |-> FALSE, inner |-> NoArgs, args |-> select_args(q),
          joined |-> eager, func |-> "", cols |-> "pk"]

\* Query._col_aggregate(col, func, nested_cols): the statement of count()
\* and of the aggregates; cols says what the inner select selects, the
\* primary key ("pk", count()) or the aggregated column ("col")
col_aggregate(q, func, nested_cols) ==
    IF should_nest_selectable(q)
    THEN [nested |-> TRUE, inner |-> select_args(q), args |-> NoArgs,
          joined |-> FALSE, func |-> func,
          cols |-> IF nested_cols = "" THEN "col" ELSE nested_cols]
    ELSE [nested |-> FALSE, inner |-> NoArgs, args |-> select_args(q),
          joined |-> FALSE, func |-> func, cols |-> "col"]

\* Query.count(), Query.sum(col), Query.max(col)
count(q) == col_aggregate(q, "count", "pk")
sum(q) == col_aggregate(q, "sum", "")
max(q) == col_aggregate(q, "max", "")

\* DISTINCT, OFFSET and LIMIT of a select applied to its rows
Limited(rows, args) ==
    LET d == IF args.distinct THEN OrderedSet(rows) ELSE rows
        off == IF args.offset = Unset THEN 0 ELSE args.offset
        upto == IF args.limit = Unset
                THEN Len(d)
                ELSE Min(Len(d), off + args.limit)
    IN SubSeq(d, off + 1, upto)

\* the left outer join of parent rows to the child table: a row for each
\* child of the parent, one row with no child for a parent that has none
RECURSIVE OuterJoin(_, _)
OuterJoin(parents, table) ==
    IF parents = <<>> THEN <<>>
    ELSE LET p == parents[1]
             own == IF table[p] = 0
                    THEN <<JoinedRow(p, NoneObj)>>
                    ELSE [c \in 1..table[p] |-> JoinedRow(p, c)]
         IN own \o OuterJoin(Tail(parents), table)

\* the rows the database returns for a statement over the table
StatementRows(stmt, table) ==
    LET parents == [i \in 1..Len(table) |-> i]
        plain(ps) == [i \in 1..Len(ps) |-> JoinedRow(ps[i], NoneObj)]
        from(ps) == IF stmt.joined THEN OuterJoin(ps, table) ELSE plain(ps)
    IN IF stmt.nested
       THEN from(Limited(parents, stmt.inner))
       ELSE Limited(from(parents), stmt.args)

\* the value of the aggregated column in the row of a parent: the column
\* holds the number of the parent's children
Col(table, parent) == table[parent]

\* an aggregate function of SQL over the values of its rows: NULL (Null)
\* for sum and max of no row
RECURSIVE SumOf(_)
SumOf(vals) == IF vals = <<>> THEN 0 ELSE vals[1] + SumOf(Tail(vals))
MaxOf(vals) ==
    CHOOSE v \in {vals[i] : i \in 1..Len(vals)} :
        \A i \in 1..Len(vals) : vals[i] <= v
Aggregate(func, vals) ==
    CASE func = "count" -> Len(vals)
      [] func = "sum" -> IF vals = <<>> THEN Null ELSE SumOf(vals)
      [] func = "max" -> IF vals = <<>> THEN Null ELSE MaxOf(vals)

\* the scalar the database returns for the statement of an aggregate: the
\* inner select, when there is one, selects its columns of the rows of the
\* criterion and applies DISTINCT, OFFSET and LIMIT to what it selected
AggregateValue(stmt, table) ==
    LET parents == [i \in 1..Len(table) |-> i]
        cols == [i \in 1..Len(table) |-> Col(table, i)]
        selected == IF stmt.cols = "pk" THEN parents ELSE cols
    IN IF stmt.nested
       THEN Aggregate(stmt.func, Limited(selected, stmt.inner))
       ELSE Aggregate(stmt.func, cols)

\* the instances the rows materialize to: each parent once, in the order of
\* its first row, with the children its rows gave
Instances(rows) ==
    LET ps == OrderedSet([i \in 1..Len(rows) |-> rows[i].parent])
    IN [i \in 1..Len(ps) |->
          [parent |-> ps[i], children |-> ChildrenIn(rows, ps[i])]]

\* a terminal operation of the Query over the table
ShapeOp(op, stmt, rows, ret) ==
    /\ xlast' = [op |-> op, stmt |-> stmt, rows |-> rows, ret |-> ret,
                 ops |-> xlast.ops + 1]
    /\ UNCHANGED <<db, session>>
    /\ UNCHANGED <<attrvars, queryvars>>

\* list(query)
DoList ==
    /\ xlast.ops < MaxOps
    /\ LET stmt == compile_context(Cur, session.eager)
           rows == StatementRows(stmt, db)
       IN ShapeOp("list", stmt, Instances(rows), Len(Instances(rows)))

\* query.count(), query.sum(col), query.max(col)
DoCount ==
    /\ xlast.ops < MaxOps
    /\ ShapeOp("count", count(Cur), <<>>, AggregateValue(count(Cur), db))

DoSum ==
    /\ xlast.ops < MaxOps
    /\ ShapeOp("sum", sum(Cur), <<>>, AggregateValue(sum(Cur), db))

DoMax ==
    /\ xlast.ops < MaxOps
    /\ ShapeOp("max", max(Cur), <<>>, AggregateValue(max(Cur), db))

NextShape ==
    \/ DoList
    \/ DoCount
    \/ DoSum
    \/ DoMax

InitShape ==
    /\ \E lim \in {Unset} \cup 0..MaxVal, off \in {Unset, 0, 1},
          dist \in BOOLEAN :
          queries = <<[NewQuery(1) EXCEPT !._limit = lim,
                                          !._offset = off,
                                          !._distinct = dist]>>
    /\ heap = NewHeap("User")
    /\ qlast = [op |-> "Query", err |-> "ok", src |-> 0, new |-> 1,
                by |-> <<"Query">>]
    /\ db \in ParentTables
    /\ session \in [eager : BOOLEAN]
    /\ xlast = [op |-> "none", stmt |-> compile_context(NewQuery(1), FALSE),
                rows |-> <<>>, ret |-> 0, ops |-> 0]

InitShapeSpec == InitAttr /\ InitShape

SpecShape == InitShapeSpec /\ [][NextShape]_vars

(* ------------------- iteration in batches (yield_per) ----------------- *)
\* one run of Query.iterate_instances over a cursor: _yield_per (0 when not
\* set), the rows fetched so far and before the last pass, the objects
\* yielded so far, the objects of the last pass, the number of passes that
\* yielded, and whether the loop has ended
NewIteration ==
    [yield_per |-> 0, pos |-> 0, start |-> 0, out |-> <<>>, batch |-> <<>>,
     passes |-> 0, done |-> FALSE]

\* Query.yield_per(count)
yield_per(run, per) == [run EXCEPT !.yield_per = per]

\* variant of a pass of the loop whose filter sees the objects of the
\* passes before
iterate_pass_whole_run(q, h, run, cursor) ==
    LET fetch == IF run.yield_per # 0
                 THEN SubSeq(cursor, run.pos + 1,
                             Min(Len(cursor), run.pos + run.yield_per))
                 ELSE cursor
        all == iterate_instances(q, h, run.out \o fetch)
        rows == SubSeq(all, Len(run.out) + 1, Len(all))
    IN IF run.yield_per # 0 /\ fetch = <<>>
       THEN [run EXCEPT !.done = TRUE, !.batch = <<>>, !.start = run.pos]
       ELSE [run EXCEPT !.pos = @ + Len(fetch), !.start = run.pos, !.out = @ \o rows,
                        !.batch = rows, !.passes = @ + 1,
                        !.done = (run.yield_per = 0)]

\* one pass of the loop of Query.iterate_instances: fetchmany(_yield_per) or
\* fetchall, the rows processed, filtered and yielded
iterate_pass(q, h, run, cursor) ==
    LET fetch == IF run.yield_per # 0
                 THEN SubSeq(cursor, run.pos + 1,
                             Min(Len(cursor), run.pos + run.yield_per))
                 ELSE cursor
        rows == iterate_instances(q, h, fetch)
    IN IF run.yield_per # 0 /\ fetch = <<>>
       THEN [run EXCEPT !.done = TRUE, !.batch = <<>>, !.start = run.pos]
       ELSE [run EXCEPT !.pos = @ + Len(fetch), !.start = run.pos, !.out = @ \o rows,
                        !.batch = rows, !.passes = @ + 1,
                        !.done = (run.yield_per = 0)]

IterationOp(op, run) ==
    /\ session' = run
    /\ xlast' = [op |-> op, yielded |-> Len(run.out) - Len(session.out)]
    /\ UNCHANGED <<attrvars, queryvars>>

DoYieldPer == \E per \in 1..MaxRows :
    /\ session.pos = 0 /\ ~session.done /\ session.yield_per = 0
    /\ IterationOp("yield_per", yield_per(session, per))
    /\ UNCHANGED db

DoIteratePass ==
    /\ ~session.done
    /\ IterationOp("pass", iterate_pass(Cur, heap, session, db))
    /\ UNCHANGED db

NextBatch ==
    \/ DoYieldPer
    \/ DoIteratePass

InitBatch ==
    /\ InitAnyQuery
    /\ db \in RowSeqs
    /\ session = NewIteration
    /\ xlast = [op |-> "none", yielded |-> 0]

InitBatchSpec == InitAttr /\ InitBatch

SpecBatch == InitBatchSpec /\ [][NextBatch]_vars

(* ------------- commit and rollback over several instances ------------- *)
\* the instances the registry serves in this part
Insts == {"i1", "i2"}

\* an instance: whether its __dict__ has the side table _managed_attributes,
\* and per key the stored value and the entry of the side table
NewInstance == [side |-> FALSE, attrs |-> [k \in Keys |-> NoCell]]

\* AttributeManager.attribute_history(obj): the side table, made when missing
attribute_history(inst) == [inst EXCEPT !.side = TRUE]

\* variant of commit that does not look at the instances it is given
commit_every_instance(insts, os) ==
    [i \in Insts |->
        [side |-> TRUE,
         attrs |-> [k \in Keys |-> hist_commit(insts[i].attrs[k])]]]

\* AttributeManager.commit(*obj)
commit_instances(insts, os) ==
    [i \in Insts |->
        IF i \in os
        THEN [side |-> attribute_history(insts[i]).side,
              attrs |-> [k \in Keys |-> hist_commit(insts[i].attrs[k])]]
        ELSE insts[i]]

\* AttributeManager.rollback(*obj)
rollback_instances(insts, os) ==
    [i \in Insts |->
        IF i \in os
        THEN [side |-> attribute_history(insts[i]).side,
              attrs |-> [k \in Keys |-> hist_rollback(insts[i].attrs[k])]]
        ELSE insts[i]]

\* an operation of the registry on the instances
RegistryOp(op, os, insts) ==
    /\ xlast.ops < MaxOps
    /\ session' = insts
    /\ xlast' = [op |-> op, objs |-> os, err |-> "ok", pre |-> session,
                 ops |-> xlast.ops + 1]
    /\ UNCHANGED <<attrvars, queryvars>>

\* set_attribute(obj, key, value) and delete_attribute(obj, key)
DoInstSet == \E i \in Insts, k \in Keys, v \in Vals \cup {Null} :
    /\ RegistryOp("set", {i},
          [session EXCEPT ![i].side = TRUE,
                          ![i].attrs[k] = PropHistory_setattr(get_history(@), v)])
    /\ UNCHANGED db

DoInstDelete == \E i \in Insts, k \in Keys :
    /\ RegistryOp("delete", {i},
          [session EXCEPT ![i].side = TRUE,
                          ![i].attrs[k] = PropHistory_delattr(get_history(@))])
    /\ UNCHANGED db

\* set_callable(obj, key, func)
DoInstSetCallable == \E i \in Insts, k \in Keys :
    /\ RegistryOp("set_callable", {i},
          [session EXCEPT ![i].side = TRUE,
                          ![i].attrs[k].hist = CallableProp(1),
                          ![i].attrs[k].n = 0])
    /\ UNCHANGED db

DoInstCommit == \E os \in SUBSET Insts :
    /\ RegistryOp("commit", os, commit_instances(session, os))
    /\ UNCHANGED db

DoInstRollback == \E os \in SUBSET Insts :
    /\ RegistryOp("rollback", os, rollback_instances(session, os))
    /\ UNCHANGED db

NextRegistry ==
    \/ DoInstSet
    \/ DoInstDelete
    \/ DoInstSetCallable
    \/ DoInstCommit
    \/ DoInstRollback

InitRegistry ==
    /\ QueryIdle
    /\ db = <<>>
    /\ session = [i \in Insts |-> NewInstance]
    /\ xlast = [op |-> "none", objs |-> {}, err |-> "ok",
                pre |-> [i \in Insts |-> NewInstance], ops |-> 0]

InitRegistrySpec == InitAttr /\ InitRegistry

SpecRegistry == InitRegistrySpec /\ [][NextRegistry]_vars

(* -------------------- autoflush before a SELECT ----------------------- *)
\* the terminal operations that iterate the Query, and the ones that run
\* Query._col_aggregate
IterOps == {"__iter__", "all", "first", "one"}
AggregateOps == {"count", "min", "max", "sum", "avg"}

\* the session and its table as a terminal operation meets them: rows (the
\* rows flushed to the table) and pending (the rows added to the session and
\* not flushed)
Flushable(rows, pending) == [rows |-> rows, pending |-> pending]

\* Session._autoflush(): what is pending is written to the table
session_autoflush(st) == Flushable(st.rows + st.pending, 0)

\* what a terminal operation did: the calls it made on the session, in
\* their order, the session and table after them, and the number of rows
\* the statement saw
Ran(events, st) == [events |-> events, st |-> st, seen |-> st.rows]

\* Query.autoflush(setting): the flag of the Query returned
autoflush(setting) == setting

\* variant of __iter__ that does not call the hook
iter_query_noflush(q, flag, st) == Ran(<<"execute">>, st)

\* Query.__iter__ (and all(), first(), one() through it): flag is the
\* Query's _autoflush
iter_query(q, flag, st) ==
    IF flag /\ ~q._populate_existing
    THEN Ran(<<"_autoflush", "execute">>, session_autoflush(st))
    ELSE Ran(<<"execute">>, st)

\* Query._col_aggregate from the statement on (count() and the aggregates)
aggregate_query(q, flag, st) ==
    IF flag /\ ~q._populate_existing
    THEN Ran(<<"_autoflush", "scalar">>, session_autoflush(st))
    ELSE Ran(<<"scalar">>, st)

\* a terminal operation on the newest Query
FlushOp(op, ran) ==
    /\ xlast.ops < MaxOps
    /\ db' = ran.st.rows
    /\ session' = [session EXCEPT !.pending = ran.st.pending]
    /\ xlast' = [op |-> op, events |-> ran.events, seen |-> ran.seen,
                 flag |-> session.autoflush,
                 populate |-> Cur._populate_existing,
                 rows |-> db, pending |-> session.pending,
                 ops |-> xlast.ops + 1]
    /\ UNCHANGED <<attrvars, queryvars>>

DoIterate == \E op \in IterOps :
    FlushOp(op, iter_query(Cur, session.autoflush,
                           Flushable(db, session.pending)))

DoAggregate == \E op \in AggregateOps :
    FlushOp(op, aggregate_query(Cur, session.autoflush,
                                Flushable(db, session.pending)))

\* query.autoflush(setting): a clone with the flag set
DoAutoflush == \E setting \in BOOLEAN :
    /\ Len(queries) < MaxChain
    /\ queries' = Append(queries, Cur)
    /\ qlast' = [op |-> "autoflush", err |-> "ok", src |-> Len(queries),
                 new |-> Len(queries) + 1, by |-> Append(qlast.by, "autoflush")]
    /\ session' = [session EXCEPT !.autoflush = autoflush(setting)]
    /\ UNCHANGED <<heap, db, xlast>>
    /\ UNCHANGED attrvars

DoPopulateExisting ==
    /\ Len(queries) < MaxChain
    /\ Call("populate_existing", populate_existing(Cur, heap))

\* the application adds an object to the session
DoPend ==
    /\ db + session.pending < MaxRows
    /\ session' = [session EXCEPT !.pending = @ + 1]
    /\ UNCHANGED <<db, xlast>>
    /\ UNCHANGED <<attrvars, queryvars>>

NextFlush ==
    \/ DoIterate
    \/ DoAggregate
    \/ DoAutoflush
    \/ DoPopulateExisting
    \/ DoPend

\* a new Query has _autoflush = True
InitFlush ==
    /\ InitAnyQuery
    /\ db \in 0..1
    /\ session = [autoflush |-> TRUE, pending |-> 0]
    /\ xlast = [op |-> "none", events |-> <<>>, seen |-> 0, flag |-> TRUE,
                populate |-> FALSE, rows |-> 0, pending |-> 0, ops |-> 0]

InitFlushSpec == InitAttr /\ InitFlush

SpecFlush == InitFlushSpec /\ [][NextFlush]_vars

(* ------------------- collection-valued lazy slots --------------------- *)
\* the lists an instance can hold or a callable can return
Lists == {<<>>, <<1>>, <<2>>, <<1, 2>>}
\* what a callable returns: a list, or None
ReturnsList(l) == [none |-> FALSE, list |-> l]
ReturnsNone == [none |-> TRUE, list |-> <<>>]

\* a list attribute of an instance: has/val (the list in obj.__dict__, when
\* there is one), hist (the kind of the side-table entry), callable_ (what
\* the callable of a slot returns), data (the list the Collection Tracker
\* wraps), n (invocations of the callable)
NoListCell ==
    [has |-> FALSE, val |-> <<>>, hist |-> "none", callable_ |-> ReturnsNone,
     data |-> <<>>, n |-> 0]

\* ListElement.__init__(obj, key, data): an existing list is kept and the
\* data appended to it; without one the tracker takes the data and the
\* instance gets an empty list
ListElement_init(c, call) ==
    IF c.has
    THEN LET list_ == IF call.none THEN c.val ELSE c.val \o call.list
         IN [c EXCEPT !.val = list_, !.data = list_, !.hist = "ListElement"]
    ELSE [c EXCEPT !.has = TRUE, !.val = <<>>,
                   !.data = IF call.none THEN <<>> ELSE call.list,
                   !.hist = "ListElement"]

\* variant of CallableProp.gethistory that runs the callable whatever the
\* instance holds
CallableProp_gethistory_always(c) ==
    ListElement_init([c EXCEPT !.n = @ + 1], c.callable_)

\* CallableProp.gethistory for uselist: the callable runs when the instance
\* has no list for the key or an empty one; a ListElement takes the slot's
\* place in the side table
CallableProp_gethistory(c) ==
    IF ~c.has \/ Len(c.val) = 0
    THEN ListElement_init([c EXCEPT !.n = @ + 1], c.callable_)
    ELSE ListElement_init(c, ReturnsNone)

\* AttributeManager.get_list_history(obj, key)
get_list_history(c) ==
    CASE c.hist = "CallableProp" -> CallableProp_gethistory(c)
      [] c.hist = "ListElement" -> c
      [] c.hist = "none" ->
            ListElement_init(c, IF c.has THEN ReturnsList(c.val) ELSE ReturnsNone)

\* an operation on the list attribute
ListOp(op, c) ==
    /\ xlast.ops < MaxOps
    /\ session' = c
    /\ xlast' = [op |-> op, pre |-> session, ret |-> c.data,
                 ops |-> xlast.ops + 1]
    /\ UNCHANGED <<attrvars, queryvars>>

\* get_list_attribute(obj, key)
DoGetList ==
    /\ ListOp("get_list_attribute", get_list_history(session))
    /\ UNCHANGED db

\* set_callable(obj, key, func, uselist=True)
DoSetListCallable == \E call \in {ReturnsList(l) : l \in Lists} \cup {ReturnsNone} :
    /\ ListOp("set_callable",
              [session EXCEPT !.hist = "CallableProp", !.callable_ = call])
    /\ UNCHANGED db

\* a loader stores a list on the instance ahead of the slot's resolution
DoStoreList == \E l \in Lists :
    /\ session.hist # "ListElement"
    /\ ListOp("store", [session EXCEPT !.has = TRUE, !.val = l])
    /\ UNCHANGED db

NextListSlot ==
    \/ DoGetList
    \/ DoSetListCallable
    \/ DoStoreList

InitListSlot ==
    /\ QueryIdle
    /\ db = <<>>
    /\ session = NoListCell
    /\ xlast = [op |-> "none", pre |-> NoListCell, ret |-> <<>>, ops |-> 0]

InitListSlotSpec == InitAttr /\ InitListSlot

SpecListSlot == InitListSlotSpec /\ [][NextListSlot]_vars

(* ---------------- evaluators of AND, OR and NOT ----------------------- *)
\* operands with the values True, False and None
TrueClause == binary(bindparam(1), "eq", bindparam(1))
FalseClause == binary(bindparam(1), "ne", bindparam(1))
LogicOperands == {TrueClause, FalseClause, null}

\* and_/or_ of two or three operands, and NOT of an operand or of such a list
LogicLists ==
    {clauselist(op, s) :
        op \in {"and_", "or_"},
        s \in [1..2 -> LogicOperands] \cup [1..3 -> LogicOperands]}
LogicClauses ==
    LogicLists \cup {unary("inv", c) : c \in LogicOperands \cup LogicLists}

\* the evaluator of the clause is built and applied to an instance
DoEvaluateLogic ==
    /\ xlast.op = "none"
    /\ xlast' = [op |-> "evaluate", built |-> process(session),
                 val |-> evaluate(session, EvalState(NoObj, NoRecord, 0))[1]]
    /\ UNCHANGED <<db, session>>
    /\ UNCHANGED <<attrvars, queryvars>>

NextLogic == DoEvaluateLogic

InitLogic ==
    /\ QueryIdle
    /\ db = <<>>
    /\ session \in LogicClauses
    /\ xlast = [op |-> "none", built |-> "ok", val |-> PyNone]

InitLogicSpec == InitAttr /\ InitLogic

SpecLogic == InitLogicSpec /\ [][NextLogic]_vars

(* --------------------- evaluators of binary clauses ------------------- *)
\* _notimplemented_ops
notimplemented_ops ==
    {"like_op", "notlike_op", "ilike_op", "notilike_op", "between_op",
     "in_op", "notin_op", "endswith_op", "concat_op"}
\* the operators a binary clause is built with
BinaryOps == straight_ops \cup notimplemented_ops \cup {"is_", "isnot"}
BinaryOperands == {null} \cup {bindparam(v) : v \in Vals}

\* EvaluatorCompiler.process on the clause
DoProcessBinary ==
    /\ xlast.op = "none"
    /\ xlast' = [op |-> "process", built |-> process(session), val |-> PyNone]
    /\ UNCHANGED <<db, session>>
    /\ UNCHANGED <<attrvars, queryvars>>

\* the evaluator it returned is applied to an instance
DoApplyBinary ==
    /\ xlast.op = "process" /\ xlast.built = "ok"
    /\ xlast' = [op |-> "evaluate", built |-> "ok",
                 val |-> evaluate(session, EvalState(NoObj, NoRecord, 0))[1]]
    /\ UNCHANGED <<db, session>>
    /\ UNCHANGED <<attrvars, queryvars>>

NextBinary ==
    \/ DoProcessBinary
    \/ DoApplyBinary

InitBinary ==
    /\ QueryIdle
    /\ db = <<>>
    /\ session \in {binary(l, op, r) :
                      l \in BinaryOperands, op \in BinaryOps, r \in BinaryOperands}
    /\ xlast = [op |-> "none", built |-> "ok", val |-> PyNone]

InitBinarySpec == InitAttr /\ InitBinary

SpecBinary == InitBinarySpec /\ [][NextBinary]_vars

(* ------------------ eager-join expansion at compile time -------------- *)
\* the mapped classes, and the eager relations a graph of them may have:
\* a loader is <<parent, mapper>>, the class it is on and its target
EagerClasses == {"A", "B", "C"}
MaxLoaders == 4
RecursionLimit == 8
Loaders == EagerClasses \X EagerClasses

\* EagerLoader.init: a relation of a class to itself is refused
EagerLoader_init(loader) ==
    IF loader[1] = loader[2] THEN "ArgumentError" ELSE "ok"

\* the eager relations of the graphs whose loaders all initialise
EagerGraphs ==
    {g \in SUBSET {l \in Loaders : EagerLoader_init(l) = "ok"} :
        Cardinality(g) <= MaxLoaders}

\* mapper.props.values(), the eager ones: the loaders on class `mapper`
props(graph, mapper) == {l \in graph : l[1] = mapper}

\* the compile context: its mapper, the recursion stack, the outer joins the
\* statement got, and whether the statement's FROM holds the mapper's table
NewContext(mapper, anchored) ==
    [mapper |-> mapper, recursion_stack |-> {}, outerjoin |-> <<>>,
     anchored |-> anchored]

\* setup_query that expands a loader already on the recursion stack too
setup_query_reentrant(context, loader) ==
    LET entered == [context EXCEPT !.recursion_stack = @ \cup {loader}]
    IN IF context.outerjoin = <<>> /\ ~context.anchored
       THEN [context |-> entered, raised |-> "InvalidRequestError",
             expand |-> FALSE]
       ELSE [context |-> [entered EXCEPT !.outerjoin = Append(@, loader)],
             raised |-> "none", expand |-> TRUE]

\* EagerLoader.setup_query up to the loop over the target's properties: the
\* context after it, the error raised, and whether the loop is entered
setup_query(context, loader) ==
    IF loader \in context.recursion_stack
    THEN [context |-> context, raised |-> "none", expand |-> FALSE]
    ELSE LET entered == [context EXCEPT !.recursion_stack = @ \cup {loader}]
         IN IF context.outerjoin = <<>> /\ ~context.anchored
            THEN [context |-> entered, raised |-> "InvalidRequestError",
                  expand |-> FALSE]
            ELSE [context |-> [entered EXCEPT !.outerjoin = Append(@, loader)],
                  raised |-> "none", expand |-> TRUE]

\* a frame of the traversal: the class whose properties are being set up and
\* the ones still to visit
Frame(graph, mapper) == [mapper |-> mapper, todo |-> props(graph, mapper)]

\* the compile starts the loop over the properties of the context's mapper
DoCompile ==
    /\ xlast.op = "none"
    /\ xlast' = [op |-> "setup", frames |-> <<Frame(db, session.mapper)>>,
                 raised |-> "none"]
    /\ UNCHANGED <<db, session>>
    /\ UNCHANGED <<attrvars, queryvars>>

\* value.setup(context, ...) on the next property of the innermost loop,
\* taken in any order
DoSetupQuery ==
    /\ xlast.op = "setup" /\ xlast.frames # <<>>
    /\ \E loader \in xlast.frames[Len(xlast.frames)].todo :
         LET n == Len(xlast.frames)
             r == setup_query(session, loader)
             rest == [xlast.frames EXCEPT ![n].todo = @ \ {loader}]
         IN /\ session' = r.context
            /\ xlast' =
                 IF r.raised # "none"
                 THEN [op |-> "raised", frames |-> <<>>, raised |-> r.raised]
                 ELSE IF ~r.expand
                 THEN [xlast EXCEPT !.frames = rest]
                 ELSE IF n >= RecursionLimit
                 THEN [op |-> "raised", frames |-> <<>>,
                       raised |-> "RuntimeError"]
                 ELSE [xlast EXCEPT
                         !.frames = Append(rest, Frame(db, loader[2]))]
    /\ UNCHANGED db
    /\ UNCHANGED <<attrvars, queryvars>>

\* a loop over properties that has visited them all returns to its caller
DoSetupReturn ==
    /\ xlast.op = "setup" /\ xlast.frames # <<>>
    /\ xlast.frames[Len(xlast.frames)].todo = {}
    /\ xlast' = IF Len(xlast.frames) = 1
                THEN [xlast EXCEPT !.op = "done", !.frames = <<>>]
                ELSE [xlast EXCEPT
                        !.frames = SubSeq(@, 1, Len(xlast.frames) - 1)]
    /\ UNCHANGED <<db, session>>
    /\ UNCHANGED <<attrvars, queryvars>>

NextSetup ==
    \/ DoCompile
    \/ DoSetupQuery
    \/ DoSetupReturn

InitSetup ==
    /\ QueryIdle
    /\ db \in EagerGraphs
    /\ \E mapper \in EagerClasses, anchored \in BOOLEAN :
          session = NewContext(mapper, anchored)
    /\ xlast = [op |-> "none", frames |-> <<>>, raised |-> "none"]

InitSetupSpec == InitAttr /\ InitSetup

\* the compile is one call on one thread: a step that can be taken is taken
SpecSetup == InitSetupSpec /\ [][NextSetup]_vars /\ WF_vars(NextSetup)

(* ------------------------- chains of joins ---------------------------- *)
\* the relations of User a join() can name: one to another table and one to
\* User itself
UserProps == {"addresses", "manager"}

\* join(key, aliased=...) on the newest Query
DoJoinKey ==
    /\ CanCall
    /\ \E pr \in UserProps, al \in BOOLEAN :
          Call("join", join(Cur, heap, pr, FALSE, al))
    /\ UNCHANGED dict

\* outerjoin(key, aliased=...) on the newest Query
DoOuterJoinKey ==
    /\ CanCall
    /\ \E pr \in UserProps, al \in BOOLEAN :
          Call("outerjoin", join(Cur, heap, pr, TRUE, al))
    /\ UNCHANGED dict

NextJoins ==
    \/ DoJoinKey
    \/ DoOuterJoinKey

InitJoins ==
    /\ queries = <<NewQuery(1)>>
    /\ heap = NewHeap("User")
    /\ qlast = [op |-> "Query", err |-> "ok", src |-> 0, new |-> 1,
                by |-> <<"Query">>]

InitJoinsSpec == InitAttr /\ InitJoins /\ SessionIdle

SpecJoins == InitJoinsSpec /\ [][NextJoins]_vars

(* ------------------------------ run ids ------------------------------- *)
\* the threads that iterate Query results at the same time
Threads == {"t1", "t2"}
NoThread == "free"

\* the module globals _runid and _id_lock, and for each thread: where it is
\* in _new_runid, the value it loaded or is about to return, the number of
\* calls it began, and the ids that had been returned when its call began
InitRunids ==
    [runid |-> 1, lock |-> NoThread,
     pc |-> [t \in Threads |-> "idle"],
     local |-> [t \in Threads |-> 0],
     began |-> [t \in Threads |-> 0],
     earlier |-> [t \in Threads |-> {}]]

\* _id_lock.acquire() goes through whether or not the lock is held
lock_free_ignored(s) == TRUE

\* _id_lock.acquire() goes through when no thread holds the lock
lock_free(s) == s.lock = NoThread

\* the ids of the calls that returned so far
Returned_ids(log) == {log[i].id : i \in 1..Len(log)}

\* iterate_instances calls _new_runid()
DoCallRunid ==
    \E t \in Threads :
       /\ session.pc[t] = "idle" /\ session.began[t] < MaxCalls
       /\ session' = [session EXCEPT !.pc[t] = "acquire",
                                     !.began[t] = @ + 1,
                                     !.earlier[t] = Returned_ids(xlast)]
       /\ UNCHANGED <<db, xlast>>
       /\ UNCHANGED <<attrvars, queryvars>>

\* _id_lock.acquire()
DoAcquire ==
    \E t \in Threads :
       /\ session.pc[t] = "acquire" /\ lock_free(session)
       /\ session' = [session EXCEPT !.pc[t] = "load", !.lock = t]
       /\ UNCHANGED <<db, xlast>>
       /\ UNCHANGED <<attrvars, queryvars>>

\* _runid += 1: the global is loaded
DoLoadRunid ==
    \E t \in Threads :
       /\ session.pc[t] = "load"
       /\ session' = [session EXCEPT !.pc[t] = "store",
                                     !.local[t] = session.runid]
       /\ UNCHANGED <<db, xlast>>
       /\ UNCHANGED <<attrvars, queryvars>>

\* _runid += 1: the sum is stored
DoStoreRunid ==
    \E t \in Threads :
       /\ session.pc[t] = "store"
       /\ session' = [session EXCEPT !.pc[t] = "value",
                                     !.runid = session.local[t] + 1]
       /\ UNCHANGED <<db, xlast>>
       /\ UNCHANGED <<attrvars, queryvars>>

\* return _runid: the value to return is read
DoReadRunid ==
    \E t \in Threads :
       /\ session.pc[t] = "value"
       /\ session' = [session EXCEPT !.pc[t] = "release",
                                     !.local[t] = session.runid]
       /\ UNCHANGED <<db, xlast>>
       /\ UNCHANGED <<attrvars, queryvars>>

\* finally: _id_lock.release()
DoRelease ==
    \E t \in Threads :
       /\ session.pc[t] = "release"
       /\ session' = [session EXCEPT !.pc[t] = "return",
                        !.lock = IF @ = t THEN NoThread ELSE @]
       /\ UNCHANGED <<db, xlast>>
       /\ UNCHANGED <<attrvars, queryvars>>

\* the call returns its id to iterate_instances
DoReturnRunid ==
    \E t \in Threads :
       /\ session.pc[t] = "return"
       /\ session' = [session EXCEPT !.pc[t] = "idle"]
       /\ xlast' = Append(xlast, [thread |-> t, id |-> session.local[t],
                                  earlier |-> session.earlier[t]])
       /\ UNCHANGED db
       /\ UNCHANGED <<attrvars, queryvars>>

NextRunid ==
    \/ DoCallRunid
    \/ DoAcquire
    \/ DoLoadRunid
    \/ DoStoreRunid
    \/ DoReadRunid
    \/ DoRelease
    \/ DoReturnRunid

InitRunid ==
    /\ QueryIdle
    /\ db = <<>>
    /\ session = InitRunids
    /\ xlast = <<>>

InitRunidSpec == InitAttr /\ InitRunid

SpecRunid == InitRunidSpec /\ [][NextRunid]_vars

(* ----------------- two threads read one unresolved slot --------------- *)
\* one attribute of one instance under a scalar CallableProp: the stored
\* value, what the callable returns, the entry of the side table, whether
\* the slot's manager is still set, the invocations of the callable, and
\* for each thread its place in get_attribute, the entry and the manager it
\* fetched, the value it holds, the reads it began and the error it got
NewSlot(val, returns) ==
    [val |-> val, returns |-> returns, entry |-> "CallableProp",
     manager |-> TRUE, n |-> 0,
     pc |-> [t \in Threads |-> "idle"],
     got |-> [t \in Threads |-> NoName],
     m |-> [t \in Threads |-> FALSE],
     local |-> [t \in Threads |-> Null],
     reads |-> [t \in Threads |-> 0],
     err |-> [t \in Threads |-> "ok"]]

\* getattr that builds the PropHistory without storing it in the side table
getattr_register_dropped(s, t) ==
    IF s.manager
    THEN [s EXCEPT !.pc[t] = "detach"]
    ELSE [s EXCEPT !.pc[t] = "idle", !.err[t] = "AttributeError"]

\* CallableProp.getattr: self.manager.attribute_history(obj)[key] = p
getattr_register(s, t) ==
    IF s.manager
    THEN [s EXCEPT !.pc[t] = "detach", !.entry = "PropHistory"]
    ELSE [s EXCEPT !.pc[t] = "idle", !.err[t] = "AttributeError"]

\* get_history: the entry of the side table is fetched; a PropHistory gives
\* the stored value at once, a CallableProp has its manager noted
DoLookupSlot ==
    \E t \in Threads :
       /\ session.pc[t] = "idle" /\ session.err[t] = "ok"
       /\ session.reads[t] < MaxCalls
       /\ session' =
            IF session.entry = "PropHistory"
            THEN [session EXCEPT !.reads[t] = @ + 1, !.got[t] = session.entry,
                                 !.local[t] = session.val]
            ELSE [session EXCEPT !.reads[t] = @ + 1, !.got[t] = session.entry,
                                 !.m[t] = session.manager, !.pc[t] = "check"]
       /\ xlast' = IF session.entry = "PropHistory"
                   THEN xlast
                   ELSE xlast \cup {t}
       /\ UNCHANGED db
       /\ UNCHANGED <<attrvars, queryvars>>

\* getattr: obj.__dict__.get(key, None) is None
DoCheckSlot ==
    \E t \in Threads :
       /\ session.pc[t] = "check"
       /\ session' = [session EXCEPT !.pc[t] =
                        IF session.val = Absent \/ session.val = Null
                        THEN "call" ELSE "register"]
       /\ UNCHANGED <<db, xlast>>
       /\ UNCHANGED <<attrvars, queryvars>>

\* getattr: value = self.callable_()
DoInvokeSlot ==
    \E t \in Threads :
       /\ session.pc[t] = "call"
       /\ session' = [session EXCEPT !.pc[t] = "store", !.n = @ + 1,
                                     !.local[t] = session.returns]
       /\ UNCHANGED <<db, xlast>>
       /\ UNCHANGED <<attrvars, queryvars>>

\* getattr: obj.__dict__[key] = value
DoStoreSlot ==
    \E t \in Threads :
       /\ session.pc[t] = "store"
       /\ session' = [session EXCEPT !.pc[t] = "register",
                                     !.val = session.local[t]]
       /\ UNCHANGED <<db, xlast>>
       /\ UNCHANGED <<attrvars, queryvars>>

\* getattr: the PropHistory replaces the slot in the side table
DoRegisterSlot ==
    \E t \in Threads :
       /\ session.pc[t] = "register"
       /\ session' = getattr_register(session, t)
       /\ UNCHANGED <<db, xlast>>
       /\ UNCHANGED <<attrvars, queryvars>>

\* getattr: self.manager = None
DoDetachSlot ==
    \E t \in Threads :
       /\ session.pc[t] = "detach"
       /\ session' = [session EXCEPT !.pc[t] = "fetch", !.manager = FALSE]
       /\ UNCHANGED <<db, xlast>>
       /\ UNCHANGED <<attrvars, queryvars>>

\* gethistory: m.attribute_history(obj)[key], and its getattr()
DoFetchSlot ==
    \E t \in Threads :
       /\ session.pc[t] = "fetch"
       /\ session' =
            IF session.m[t]
            THEN [session EXCEPT !.pc[t] = "idle", !.local[t] = session.val]
            ELSE [session EXCEPT !.pc[t] = "idle",
                                 !.err[t] = "AttributeError"]
       /\ UNCHANGED <<db, xlast>>
       /\ UNCHANGED <<attrvars, queryvars>>

NextSlotRace ==
    \/ DoLookupSlot
    \/ DoCheckSlot
    \/ DoInvokeSlot
    \/ DoStoreSlot
    \/ DoRegisterSlot
    \/ DoDetachSlot
    \/ DoFetchSlot

\* xlast: the threads that fetched the CallableProp
InitSlotRace ==
    /\ QueryIdle
    /\ db = <<>>
    /\ \E val \in {Absent, Null, 1}, returns \in {Null, 1} :
          session = NewSlot(val, returns)
    /\ xlast = {}

InitSlotRaceSpec == InitAttr /\ InitSlotRace

SpecSlotRace == InitSlotRaceSpec /\ [][NextSlotRace]_vars

(* ------------------- slices of a limited Query ------------------------ *)
\* query[start:stop] on the newest Query, the cursor returning rows; all is
\* what Query.all() returns for the same rows
DoGetitem ==
    \E start \in 0..1, rows \in CursorRows(Cur) : \E stop \in start..2 :
       /\ xlast' = [op |-> "getitem",
                    err |-> getitem_slice(Cur, heap, start, stop, rows).err,
                    list |-> getitem_slice(Cur, heap, start, stop, rows).list,
                    start |-> start, stop |-> stop, rows |-> rows,
                    src |-> Len(queries),
                    all |-> list_query(Cur, heap, rows).list]
       /\ UNCHANGED <<db, session>>
       /\ UNCHANGED <<attrvars, queryvars>>

\* limit() and offset() calls, at most MaxChain Query objects, and the
\* operations that slice
NextSlices ==
    \/ Len(queries) < MaxChain /\ DoLimit
    \/ Len(queries) < MaxChain /\ DoOffset
    \/ DoGetitem
    \/ DoFirst
    \/ DoOne

InitSlices ==
    \E m \in Mappers :
       /\ queries = <<NewQuery(1)>>
       /\ heap = NewHeap(m)
       /\ qlast = [op |-> "Query", err |-> "ok", src |-> 0, new |-> 1,
                   by |-> <<"Query">>]

InitSlicesSpec == InitAttr /\ InitSlices /\ SessionIdle

SpecSlices == InitSlicesSpec /\ [][NextSlices]_vars

(* ====================== claims: attribute layer ======================= *)
IsOp(l, op, o, k) == l.op = op /\ l.objs = {o} /\ l.key = k

\* C1: set(v) on a clean attribute followed by rollback() leaves the instance
\* dict exactly as it was before the set (an attribute without a stored value
\* is without one again), and a rollback() that directly follows a rollback()
\* of the same instances changes neither the values nor the originals.
C1_RollbackRestoresExactly ==
    [][ /\ \A o \in Objs, k \in Keys :
             ( /\ IsOp(last, "set_attribute", o, k)
               /\ last.err = "ok"
               /\ Clean(last.pre)
               /\ last'.op = "rollback"
               /\ o \in last'.objs )
             => /\ dict'[o][k] = last.pre.val
                /\ managed'[o][k] = PropHistory(NONE)
        /\ ( /\ last.op = "rollback"
             /\ last'.op = "rollback"
             /\ last'.objs \subseteq last.objs )
           => (dict' = dict /\ managed' = managed)
      ]_attrvars

\* C2: commit() keeps every stored value and leaves every tracker of the
\* committed instances with original = NONE; a rollback() right after it
\* changes nothing and a read right after it returns the stored value.
C2_CommitClearsDirty ==
    [][ /\ last'.op = "commit"
           => /\ dict' = dict
              /\ \A o \in last'.objs, k \in Keys :
                    managed'[o][k].kind = "PropHistory"
                       => managed'[o][k].orig = NONE
        /\ ( /\ last.op = "commit"
             /\ last'.op = "rollback"
             /\ last'.objs \subseteq last.objs )
           => (dict' = dict /\ managed' = managed)
        /\ \A o \in Objs, k \in Keys :
             ( /\ last.op = "commit"
               /\ o \in last.objs
               /\ managed[o][k].kind = "PropHistory"
               /\ IsOp(last', "get_attribute", o, k) )
             => /\ last'.ret = dict[o][k]
                /\ dict'[o][k] = dict[o][k]
      ]_attrvars

\* a commit made right after a set, the value set still stored
C2_Witness ==
    /\ last.op = "commit"
    /\ last.after.op = "set_attribute"
    /\ \E o \in last.objs :
          /\ dict[o][last.after.key] \in Vals
          /\ managed[o][last.after.key] = PropHistory(NONE)

\* C3: a set or delete on an attribute that already has a pending edit leaves
\* the tracker's original at the value captured by the first set.
C3_OriginalCapturedOnce ==
    \A o \in Objs, k \in Keys :
       ( /\ (IsOp(last, "set_attribute", o, k) \/ IsOp(last, "delete_attribute", o, k))
         /\ last.err = "ok"
         /\ Dirty(last.pre) )
       => managed[o][k] = last.pre.hist

\* C4: a read of an unresolved slot on an attribute without a stored value
\* invokes the callable once and stores its result; the slot is then gone, an
\* operation on an attribute without a slot invokes nothing, and the callable
\* of one set_callable is never invoked more than once.
C4_LazySlotOnce ==
    \A o \in Objs, k \in Keys :
       /\ calls[o][k] <= 1
       /\ managed[o][k].kind = "CallableProp" => calls[o][k] = 0
       /\ ( /\ IsOp(last, "get_attribute", o, k)
            /\ last.pre.hist.kind = "CallableProp"
            /\ last.pre.val = Absent )
          => /\ last.n = 1
             /\ last.err = "ok"
             /\ last.ret = last.pre.hist.callable_
             /\ dict[o][k] = last.pre.hist.callable_
             /\ managed[o][k].kind = "PropHistory"
       /\ last.pre.hist.kind # "CallableProp" => last.n = 0

\* a second read, after the slot was resolved to None, that invokes nothing
C4_Witness ==
    \E o \in Objs, k \in Keys :
       /\ IsOp(last, "get_attribute", o, k)
       /\ last.after.op = "get_attribute"
       /\ last.after.key = k
       /\ last.n = 0
       /\ calls[o][k] = 1
       /\ dict[o][k] = Null

\* C5: a read right after set_callable on an attribute that holds a non-null
\* value without a pending edit invokes the callable once and returns its
\* result.
C5_ExpireThenRead ==
    \A o \in Objs, k \in Keys :
       ( /\ IsOp(last, "get_attribute", o, k)
         /\ last.after.op = "set_callable"
         /\ last.after.key = k
         /\ ~last.after.dirty
         /\ last.pre.hist.kind = "CallableProp"
         /\ last.pre.val \in Vals )
       => (last.n = 1 /\ last.ret = last.pre.hist.callable_)

\* C6: a set on an attribute whose slot is unresolved invokes no callable.
C6_SetDoesNotLoad ==
    \A o \in Objs, k \in Keys :
       ( /\ IsOp(last, "set_attribute", o, k)
         /\ last.pre.hist.kind = "CallableProp" )
       => last.n = 0

(* ======================= claims: Query builder ======================= *)
\* everything a Query holds, its containers read through their references
View(q, h) ==
    [fields |-> q, entities |-> Entities(q, h), params |-> Params(q, h),
     attributes |-> Attributes(q, h),
     polymorphic_adapters |-> PolymorphicAdapters(q, h),
     currenttables |-> CurrentTables(q, h)]

\* C7: q2 = q1.filter(x) leaves q1's criterion and compiled statement as they
\* were; q2's criterion is q1's with x and-ed at the end.
C7_FilterLeavesSource ==
    [][ (qlast'.op = "filter" /\ qlast'.err = "ok") =>
          LET q1 == queries[qlast'.src]
              q1after == queries'[qlast'.src]
              q2 == queries'[qlast'.new]
          IN /\ q1after._criterion = q1._criterion
             /\ Statement(q1after, heap') = Statement(q1, heap)
             /\ Len(q2._criterion) = Len(q1._criterion) + 1
             /\ SubSeq(q2._criterion, 1, Len(q1._criterion)) = q1._criterion
             /\ q2._criterion[Len(q2._criterion)].clause \in Criteria
      ]_vars

\* a filter() made on a Query that already had a criterion
C7_Witness ==
    /\ qlast.op = "filter"
    /\ qlast.err = "ok"
    /\ Len(queries[qlast.src]._criterion) = 1
    /\ Len(queries[qlast.new]._criterion) = 2

\* C8: no generative call changes anything an existing Query holds: every
\* Query's fields and the contents of its entity list, params, attributes,
\* current-tables set and polymorphic-adapter map stay as they were.
C8_NoSharedMutableState ==
    [][ \A i \in 1..Len(queries) :
           View(queries'[i], heap') = View(queries[i], heap) ]_vars

GuardedByStatement ==
    {"filter", "order_by", "group_by", "having", "join", "outerjoin",
     "limit", "offset", "distinct", "slice", "reset_joinpoint"}

GuardedByLimitOffset ==
    {"filter", "order_by", "group_by", "having", "join", "outerjoin"}

\* C9: a filter, order_by, group_by, having, join, outerjoin, limit, offset,
\* distinct, slice or reset_joinpoint call made on a Query that carries a raw
\* statement raises InvalidRequestError and returns no Query.
C9_NoStatementGuard ==
    ( /\ qlast.op \in GuardedByStatement
      /\ queries[qlast.src]._statement # NoName )
    => /\ qlast.err = "InvalidRequestError"
       /\ qlast.new = 0
       /\ qlast.src = Len(queries)

\* a join() refused on the Query from_statement() returned
C9_Witness ==
    /\ qlast.op = "join"
    /\ qlast.err = "InvalidRequestError"
    /\ qlast.by[qlast.src] = "from_statement"
    /\ queries[qlast.src]._statement = "stmt"

\* C10: a filter, order_by, group_by, having, join or outerjoin call made on a
\* Query whose limit or offset is set (0 included) raises InvalidRequestError;
\* made on the Query from_self() returned, it is accepted.
C10_NoLimitOffsetGuard ==
    /\ ( /\ qlast.op \in GuardedByLimitOffset
         /\ \/ queries[qlast.src]._limit # Unset
            \/ queries[qlast.src]._offset # Unset )
       => (qlast.err = "InvalidRequestError" /\ qlast.new = 0)
    /\ ( /\ qlast.op \in GuardedByLimitOffset
         /\ qlast.by[qlast.src] = "from_self" )
       => (qlast.err = "ok" /\ qlast.new = Len(queries))

\* limit(0), then from_self(), then an accepted filter()
C10_Witness ==
    /\ qlast.op = "filter"
    /\ qlast.err = "ok"
    /\ qlast.src = 3
    /\ qlast.by[3] = "from_self"
    /\ qlast.by[2] = "limit"
    /\ queries[2]._limit = 0

\* what C11 lists: criterion, raw statement, FROM clause, limit, offset,
\* order_by or group_by applied
C11_Applied(q) ==
    \/ q._criterion # <<>>
    \/ q._statement # NoName
    \/ q._from_obj # <<>>
    \/ q._limit # Unset
    \/ q._offset # Unset
    \/ q._order_by # <<>>
    \/ q._group_by # <<>>

\* C11 (as amended): select_from() and with_polymorphic() raise
\* InvalidRequestError and return no Query whenever the Query has a criterion,
\* raw statement, FROM clause, limit, offset, order_by or group_by; on a Query
\* with none of them select_from() succeeds, and with_polymorphic() succeeds
\* when the first entity of the Query is a mapped class and raises
\* InvalidRequestError when it is a column expression.
C11_FromCriterionGuards ==
    LET q == queries[qlast.src]
        raised == qlast.err = "InvalidRequestError" /\ qlast.new = 0
        passed == qlast.err = "ok" /\ qlast.new = Len(queries)
    IN /\ qlast.op = "select_from" =>
             IF C11_Applied(q) THEN raised ELSE passed
       /\ qlast.op = "with_polymorphic" =>
             IF C11_Applied(q) \/ ~Entities(q, heap)[1].primary
             THEN raised ELSE passed

\* C11 as stated: both calls raise when one of the listed parts is applied
\* and succeed on every Query with none of them.
C11_GuardsExactly ==
    qlast.op \in {"select_from", "with_polymorphic"} =>
       IF C11_Applied(queries[qlast.src])
       THEN qlast.err = "InvalidRequestError" /\ qlast.new = 0
       ELSE qlast.err = "ok" /\ qlast.new = Len(queries)

\* with_polymorphic() refused on a Query whose only applied part is a GROUP BY
\* made two calls after the Query was built
C11_Witness ==
    /\ qlast.op = "with_polymorphic"
    /\ qlast.err = "InvalidRequestError"
    /\ qlast.src = 3
    /\ qlast.by[3] = "group_by"
    /\ queries[3]._group_by # <<>>
    /\ queries[3]._criterion = <<>>
    /\ queries[3]._order_by = <<>>
    /\ queries[3]._from_obj = <<>>
    /\ queries[3]._limit = Unset
    /\ queries[3]._offset = Unset
    /\ Entities(queries[3], heap)[1].primary

\* C12: a with_lockmode() call given a mode the lock-mode table lacks raises
\* a configuration error at that call and returns no Query.
C12_LockmodeRejectedAtCall ==
    ( /\ qlast.op = "with_lockmode"
      /\ qlast.err = "ok" )
    => LET mode == queries[qlast.new]._lockmode
       IN mode = NoName \/ mode \in LockModes

\* C13: one() raises NoResultFound when the Query returns no row, raises
\* MultipleResultsFound when it returns two or more, and returns the object of
\* the row when it returns exactly one.
C13_OneCardinality ==
    xlast.op = "one" =>
       CASE Len(xlast.all) = 0 -> xlast.err = "NoResultFound"
         [] Len(xlast.all) = 1 -> xlast.err = "ok" /\ xlast.ret = xlast.all[1]
         [] OTHER -> xlast.err = "MultipleResultsFound"

\* C14: first() returns the first object the Query returns, and None when
\* the Query returns no row, with or without a raw statement.
C14_FirstOrNone ==
    xlast.op = "first" =>
       /\ xlast.err = "ok"
       /\ xlast.ret = IF Len(xlast.all) = 0 THEN NoneObj ELSE xlast.all[1]

(* ======================= claims: get() and staleness =================== *)
\* a Query with no lock mode that does not populate existing instances
PlainGet(q) == ~q._populate_existing /\ q._lockmode = NoName

\* the operation just made is a get() on the instance of a key that the
\* identity map held
GetOnMapped == xlast.op = "get" /\ xlast.pre.in_map

\* the operation before was a get() of the same key that refreshed the instance
AfterRefreshingGet ==
    /\ xlast.prev.op = "get" /\ xlast.prev.ident = xlast.ident
    /\ xlast.prev.ret = "same" /\ xlast.prev.n = 1

\* what C15 says of the get() just made
C15_Law ==
    /\ ~xlast.pre.expired =>
         /\ xlast.err = "ok" /\ xlast.ret = "same" /\ xlast.n = 0
         /\ session[xlast.ident] = xlast.pre
    /\ (xlast.pre.expired /\ xlast.row # NoRow) =>
         /\ xlast.err = "ok" /\ xlast.ret = "same" /\ xlast.n = 1
         /\ session[xlast.ident] = refreshed(xlast.pre, xlast.row)
    /\ AfterRefreshingGet => xlast.n = 0

OnDeletedRow == xlast.pre.in_map /\ xlast.pre.expired /\ xlast.row = NoRow

\* the get() just made returned None and left the instance expunged
ReturnedNoneAndExpunged ==
    /\ xlast.err = "ok" /\ xlast.ret = "None"
    /\ session[xlast.ident] = expunged(xlast.pre)

RefreshOfDeleted ==
    /\ OnDeletedRow
    /\ \/ xlast.op = "read"
       \/ xlast.op = "get" /\ PlainGet(Cur)

Compiled(where, values) ==
    FirstError(<<process(where)>> \o
               [i \in 1..Len(values) |-> process(values[i].value)])

\* an instance seen as the row of its attribute values
AsRow(obj) == Row(obj.x, obj.y)

\* the instance satisfies the criterion; it has the new values of the update
Satisfies(where, obj) == Truthy(SqlEval(where, AsRow(obj)))
HasNewValues(values, before, after) ==
    \A i \in 1..Len(values) :
        after[values[i].key] = FromPy(SqlEval(values[i].value, AsRow(before)))

\* what C18 says of an update() with a criterion and values that compile
C18_Evaluated ==
    /\ xlast'.err = "ok"
    /\ xlast'.n = 0
    /\ \A pk \in Pks :
          (session[pk].in_map /\ Satisfies(xlast'.where, session[pk])) =>
              HasNewValues(xlast'.values, session[pk], session'[pk])

\* what C18 says of an update() with a criterion or value that does not
\* compile
C18_Expired ==
    /\ xlast'.err = "ok"
    /\ xlast'.n = 1
    /\ \A pk \in Pks :
          session'[pk] =
              IF session[pk].in_map /\ Selects(xlast'.where, db[pk])
              THEN expire(session[pk],
                          {xlast'.values[i].key : i \in 1..Len(xlast'.values)})
              ELSE session[pk]

\* C18: update() with a criterion and values the evaluator compiles sets the
\* attributes of every instance of the identity map that satisfies the
\* criterion to the new values, with no SELECT; with a criterion or value it
\* cannot compile, the rows that match are selected and exactly the tracked
\* instances of those rows have the updated attributes expired
C18_UpdateSynchronizes ==
    [][(xlast'.op = "update" /\ xlast'.where # NoClause) =>
          IF Compiled(xlast'.where, xlast'.values) = "ok"
          THEN C18_Evaluated
          ELSE C18_Expired]_vars

\* the exceptions the building of an evaluator can end with
EvaluabilityErrors == {"UnevaluatableError", "AttributeError", "UnboundLocalError"}

\* C19: evaluability failures never propagate: whatever the criterion of the
\* Query (none, or one of a kind or with an operator the evaluator does not
\* support), an update() or delete() in 'evaluate' mode that cannot build
\* its evaluators falls back to selecting the matching primary keys, and
\* the caller sees no exception
C19_EvaluabilityNeverPropagates ==
    (xlast.op \in {"update", "delete"}
       /\ Compiled(xlast.where, xlast.values) # "ok") =>
        /\ xlast.err \notin EvaluabilityErrors
        /\ xlast.sync \in {"expire", "fetch"}

(* ========================= claims: deferred columns =================== *)
\* the instance has a row and is bound to a session
Persistent == session.pk # NoPk /\ session.attached

\* C20: deferred-group law: of two deferred columns of one group on one
\* instance, whichever is read first, the first read loads every column of
\* the group with one SELECT and the read of the other executes none: the
\* two reads cost one SELECT together and give the values of the row
C20_DeferredGroupLaw ==
    Persistent =>
        /\ (session.read \cap {"a", "b"} # {}) =>
              /\ session.cost["a"] + session.cost["b"] = 1
              /\ session.slot["a"] = "plain" /\ session.slot["b"] = "plain"
              /\ session.val["a"] = db["a"] /\ session.val["b"] = db["b"]
        /\ (xlast.op = "read" /\ xlast.key \in {"a", "b"} /\ xlast.err = "ok") =>
              xlast.ret = db[xlast.key]

(* ========================= claims: eager loading ====================== *)
\* the rows the load has processed
Processed == SubSeq(session.rows, 1, session.pos)

\* C21: eager accumulation: of the joined rows one execution returns, the
\* children of the rows of one parent are gathered in one collection on that
\* parent, each child once, in the order of the rows; the scratch map has
\* one entry for each parent, the appender of that collection; and a read
\* of the collection after the load executes no statement
C21_EagerAccumulates ==
    (session.aliased /\ session.uselist) =>
        /\ \A p \in EagerParents :
              IF \E i \in 1..session.pos : session.rows[i].parent = p
              THEN /\ session.slot[p] = "list"
                   /\ session.attributes[p] = session.holds[p]
                   /\ Collection(session, p) = ChildrenIn(Processed, p)
              ELSE session.attributes[p] = 0 /\ session.slot[p] = "none"
        /\ \A p, r \in EagerParents :
              (session.holds[p] # 0 /\ session.holds[p] = session.holds[r]) => p = r
        /\ xlast.op = "read" => xlast.n = 0

\* a parent got two children from rows that another parent's row separates,
\* and its collection was read
C21_Witness ==
    /\ session.aliased /\ session.uselist
    /\ xlast.op = "read"
    /\ Len(Collection(session, xlast.parent)) = 2
    /\ Len(session.rows) = 3
    /\ session.rows[2].parent # xlast.parent

(* ========================= claims: statement shapes =================== *)
\* the parent rows the Query stands for: the rows of the criterion, limited
WantedParents ==
    Limited([i \in 1..Len(db) |-> i], select_args(Cur))

\* the Query has LIMIT, OFFSET or DISTINCT
RowLimiting == Cur._limit # Unset \/ Cur._offset # Unset \/ Cur._distinct

\* C22: a Query with an eager join and LIMIT, OFFSET or DISTINCT puts the
\* row limiting into an inner select over the parent and joins the eager
\* tables around it, so that its list has the parents the limiting leaves
\* (LIMIT n: up to n parents), each with all of its children; a Query
\* without eager joins or without row limiting emits one flat SELECT
C22_NestedWhenEagerLimited ==
    xlast.op = "list" =>
        IF session.eager /\ RowLimiting
        THEN /\ xlast.stmt.nested /\ xlast.stmt.joined
             /\ xlast.stmt.inner = select_args(Cur)
             /\ xlast.stmt.args = NoArgs
             /\ Len(xlast.rows) = Len(WantedParents)
             /\ Cur._limit # Unset => Len(xlast.rows) <= Cur._limit
             /\ \A i \in 1..Len(xlast.rows) :
                   /\ xlast.rows[i].parent = WantedParents[i]
                   /\ Len(xlast.rows[i].children) = db[WantedParents[i]]
        ELSE /\ ~xlast.stmt.nested
             /\ xlast.stmt.args = select_args(Cur)
             /\ xlast.stmt.joined = session.eager

\* a list limited to one parent that has two children, the table has more
C22_Witness ==
    /\ xlast.op = "list" /\ session.eager
    /\ Cur._limit = 1 /\ Cur._offset = 1
    /\ Len(db) = 3 /\ db[2] = 2
    /\ Len(xlast.rows) = 1
    /\ Len(xlast.rows[1].children) = 2

(* ========================= claims: iteration ========================== *)
\* the newest Query has one entity, a mapped class
SingleEntity ==
    Len(Entities(Cur, heap)) = 1 /\ Entities(Cur, heap)[1].kind = "mapper"

\* the sequence has no object twice
NoRepeat(s) == \A i, j \in 1..Len(s) : s[i] = s[j] => i = j

\* the objects of s are in the order of their first occurrence in rows
FirstOccurrenceOrder(s, rows) == s = OrderedSet(rows)

Times(s, x) == Cardinality({i \in 1..Len(s) : s[i] = x})

\* the batches of n rows, of the rows fetched so far, that have a row of x
BatchesOf(x, n) ==
    {k \in 0..Len(db) :
        \E j \in (k * n + 1)..Min((k + 1) * n, session.pos) : db[j] = x}

C24_MissingIsNotNull ==
    \A o \in Objs, k \in Keys :
       IsOp(last, "get_attribute", o, k) =>
          /\ (last.pre.val = Absent /\ last.pre.hist = NoEntry)
                => (last.err = "AttributeError" /\ dict[o][k] = Absent)
          /\ (last.pre.val = Null /\ last.pre.hist.kind # "CallableProp")
                => (last.err = "ok" /\ last.ret = Null /\ dict[o][k] = Null)
          /\ last.err = "AttributeError" => last.pre.val = Absent
          /\ (last.err = "ok" /\ last.ret = Null)
                => (last.pre.val = Null \/ last.n = 1)

\* a read of a deleted attribute returned null, while the other attribute of
\* the instance, never set, still has no stored value
C24_Witness ==
    \E o \in Objs, k \in Keys, j \in Keys :
       /\ IsOp(last, "get_attribute", o, k)
       /\ last.after.op = "delete_attribute" /\ last.after.key = k
       /\ last.err = "ok" /\ last.ret = Null
       /\ j # k /\ dict[o][j] = Absent

\* the value a read of the attribute gives: the stored one, or the result of
\* the callable of an unresolved lazy slot when none or null is stored
Effective(c) ==
    IF c.hist.kind = "CallableProp" /\ dict_get(c) = Null
    THEN c.hist.callable_
    ELSE c.val

Trackers ==
    {Cell(o, k) : o \in Objs, k \in Keys} \ 
        {c \in {Cell(o, k) : o \in Objs, k \in Keys} : c.hist.kind # "PropHistory"}

\* C26: for every tracker added_items() is [current] when it has a pending
\* edit and [] otherwise, deleted_items() is [original] when it has a
\* pending edit and the original is not null and [] otherwise,
\* unchanged_items() is [current] when it has no pending edit and []
\* otherwise; exactly one of added and unchanged is not empty
C26_ItemsClassify ==
    \A c \in Trackers :
       /\ added_items(c) = Items(IF Dirty(c) THEN <<c.val>> ELSE <<>>)
       /\ deleted_items(c) =
             Items(IF Dirty(c) /\ c.hist.orig # Null THEN <<c.hist.orig>> ELSE <<>>)
       /\ unchanged_items(c) = Items(IF Dirty(c) THEN <<>> ELSE <<c.val>>)
       /\ (added_items(c).list # <<>>) # (unchanged_items(c).list # <<>>)

(* ================== claims: commit and rollback of instances ========== *)
\* the entry of the side table is a tracker; it has a pending edit
Tracked(c) == c.hist.kind = "PropHistory"

\* C27: commit(i1..ik) and rollback(i1..ik) act on every tracked attribute
\* of every listed instance (commit: the value kept, the original reset;
\* rollback: the original, when there is one, stored back and reset), leave
\* every unlisted instance as it was, and end without an error, also for an
\* instance that has no tracked attribute
C27_CommitRollbackListed ==
    xlast.op \in {"commit", "rollback"} =>
        /\ xlast.err = "ok"
        /\ \A i \in Insts \ xlast.objs : session[i] = xlast.pre[i]
        /\ \A i \in xlast.objs, k \in Keys :
              LET c == xlast.pre[i].attrs[k]
                  d == session[i].attrs[k]
              IN IF Tracked(c)
                 THEN /\ d.hist = PropHistory(NONE)
                      /\ d.val = IF xlast.op = "rollback" /\ Dirty(c)
                                 THEN c.hist.orig
                                 ELSE c.val
                 ELSE d = c

\* a rollback of one instance with pending edits on both attributes, the
\* other instance keeping its pending edit; and before it nothing tracked
C27_Witness ==
    /\ xlast.op = "rollback" /\ xlast.objs = {"i1"}
    /\ \A k \in Keys : Dirty(xlast.pre["i1"].attrs[k])
    /\ \E k \in Keys : Dirty(session["i2"].attrs[k])
    /\ \A k \in Keys : ~Dirty(session["i1"].attrs[k])

\* a commit of an instance that has no side table yet
C27_WitnessUntracked ==
    /\ xlast.op = "commit"
    /\ \E i \in xlast.objs : ~xlast.pre[i].side
    /\ xlast.err = "ok"

(* ============================ claims: autoflush ======================= *)
\* C28: a terminal operation that executes a SELECT (iteration, all, first,
\* one, count, the aggregates) calls the session's autoflush hook and only
\* then executes the statement, which so sees what was pending, unless the
\* Query has autoflush(False) or populate_existing: then it executes the
\* statement without the hook
C28_AutoflushBeforeSelect ==
    xlast.op \in IterOps \cup AggregateOps =>
        LET statement == IF xlast.op \in IterOps THEN "execute" ELSE "scalar"
        IN IF xlast.flag /\ ~xlast.populate
           THEN /\ xlast.events = <<"_autoflush", statement>>
                /\ xlast.seen = xlast.rows + xlast.pending
                /\ db = xlast.rows + xlast.pending
           ELSE /\ xlast.events = <<statement>>
                /\ xlast.seen = xlast.rows
                /\ db = xlast.rows

\* a count() with an object pending saw the row of the object
C28_Witness ==
    /\ xlast.op = "count"
    /\ xlast.pending = 1
    /\ xlast.events = <<"_autoflush", "scalar">>
    /\ xlast.seen = xlast.rows + 1

(* ============================ claims: aggregates ====================== *)
\* the values of the aggregated column in the rows the Query returns
WantedCols == [i \in 1..Len(WantedParents) |-> Col(db, WantedParents[i])]

\* C29 for count(): the count is the number of rows the Query returns, for
\* a Query limited to n over m rows the smaller of n and m; with LIMIT,
\* OFFSET or DISTINCT the statement counts an inner select that carries
\* them, without them it counts the rows of the criterion directly
C29_CountOverQueryRows ==
    xlast.op = "count" =>
        /\ xlast.ret = Len(WantedParents)
        /\ (Cur._limit # Unset /\ Cur._offset = Unset) =>
              xlast.ret = Min(Cur._limit, Len(db))
        /\ xlast.stmt.nested = RowLimiting
        /\ xlast.stmt.nested => xlast.stmt.inner = select_args(Cur)
        /\ ~xlast.stmt.nested => xlast.stmt.args = NoArgs

\* C29: count() and the aggregates compute over the rows the Query returns:
\* their value is the function of the aggregated column over these rows;
\* the statement nests an inner select with the row limiting exactly when
\* the Query has LIMIT, OFFSET or DISTINCT
C29_AggregatesOverQueryRows ==
    xlast.op \in {"count", "sum", "max"} =>
        /\ xlast.ret = Aggregate(xlast.op, WantedCols)
        /\ xlast.stmt.nested = RowLimiting

(* ===================== claims: collection lazy slots ================== *)
\* the last operation resolved a collection lazy slot
ResolvedSlot ==
    xlast.op = "get_list_attribute" /\ xlast.pre.hist = "CallableProp"

\* C31: the resolution of a collection lazy slot invokes the callable when
\* and only when the instance has no list for the attribute or an empty
\* one; a list that has items is kept as it is and the callable skipped; in
\* both cases a Collection Tracker has the slot's place afterwards, and an
\* access that finds the tracker invokes nothing
C31_ListSlotResolution ==
    /\ ResolvedSlot =>
          /\ session.n - xlast.pre.n =
                IF ~xlast.pre.has \/ xlast.pre.val = <<>> THEN 1 ELSE 0
          /\ (xlast.pre.has /\ xlast.pre.val # <<>>) =>
                (session.val = xlast.pre.val /\ xlast.ret = xlast.pre.val)
          /\ (~xlast.pre.has \/ xlast.pre.val = <<>>) =>
                xlast.ret = xlast.pre.callable_.list
          /\ session.hist = "ListElement"
    /\ (xlast.op = "get_list_attribute" /\ xlast.pre.hist = "ListElement") =>
          (session.n = xlast.pre.n /\ session = xlast.pre)

\* a slot was resolved on an instance that had items: the callable, which
\* would have returned other items, was not invoked
C31_Witness ==
    /\ ResolvedSlot
    /\ xlast.pre.val = <<1>>
    /\ xlast.pre.callable_ = ReturnsList(<<2>>)
    /\ session.n = 0
    /\ xlast.ret = <<1>>

(* ========================= claims: the evaluator ====================== *)
\* C32: for operands True, False and None in every order the evaluators of
\* AND, OR and NOT return what SQL's three-valued logic gives (NULL AND
\* FALSE = FALSE, FALSE AND NULL = FALSE, NULL OR TRUE = TRUE, NOT NULL =
\* NULL)
C32_ThreeValuedLogic ==
    xlast.op = "evaluate" =>
        /\ xlast.built = "ok"
        /\ xlast.val = SqlEval(session, NoRecord)

\* the part of C32 that the evaluators of OR and of NOT over an operand
\* satisfy
C32_OrNotThreeValued ==
    ( /\ xlast.op = "evaluate"
      /\ \/ session.kind = "clauselist" /\ session.operator = "or_"
         \/ session.kind = "unary" /\ session.clauses[1] \in LogicOperands ) =>
        xlast.val = SqlEval(session, NoRecord)

\* an operand of the binary clause is null
NullOperand == \E i \in 1..2 : session.clauses[i].kind = "null"

\* C33: process on a binary clause returns an evaluator exactly when the
\* operator is IS, IS NOT or a straight operator, and raises
\* UnevaluatableError for every other operator; the evaluator of a straight
\* operator returns null when an operand is null
C33_BinaryWhitelist ==
    /\ xlast.op = "process" =>
          IF session.operator \in straight_ops \cup {"is_", "isnot"}
          THEN xlast.built = "ok"
          ELSE xlast.built = "UnevaluatableError"
    /\ ( /\ xlast.op = "evaluate"
         /\ session.operator \in straight_ops
         /\ NullOperand ) => xlast.val = PyNone

\* the part of C33 that holds: IS NOT and the straight operators give an
\* evaluator, every operator but IS, IS NOT and the straight ones raises
\* UnevaluatableError, and a straight operator gives null for a null operand
C33_WhitelistButIs ==
    /\ (xlast.op = "process" /\ session.operator # "is_") =>
          IF session.operator \in straight_ops \cup {"isnot"}
          THEN xlast.built = "ok"
          ELSE xlast.built = "UnevaluatableError"
    /\ ( /\ xlast.op = "evaluate"
         /\ session.operator \in straight_ops ) =>
          (NullOperand <=> xlast.val = PyNone)

\* the graph has a cycle of eager relations through loader l that the
\* compile went round: l's target reaches l's parent again and both joined
OnCycle(l) == \E k \in db : k[1] = l[2] /\ k[2] = l[1]

\* the expansion has ended: normally, or by the error of a missing anchor
SetupEnded ==
    /\ xlast.frames = <<>>
    /\ \/ xlast.op = "done"
       \/ xlast.op = "raised" /\ xlast.raised = "InvalidRequestError"

\* C34: eager-join expansion terminates for every graph of mapped classes,
\* cycles of eager relations included, and within one compile context each
\* EagerLoader adds its outer join at most once
C34_ExpansionTerminates ==
    /\ [](\A l \in Loaders : Times(session.outerjoin, l) <= 1)
    /\ [](xlast.raised # "RuntimeError")
    /\ <>[]SetupEnded

\* a compile over a cycle of eager relations ended with each loader of the
\* cycle joined
C34_Witness ==
    /\ xlast.op = "done"
    /\ \E l \in db : OnCycle(l) /\ Times(session.outerjoin, l) = 1
                     /\ Times(session.outerjoin, <<l[2], l[1]>>) = 1

\* the tables the FROM clause of the newest Query names without an alias,
\* in order: the root selectable and the targets of its un-aliased joins
UnaliasedTables ==
    LET from_obj == IF Cur._from_obj = <<>>
                    THEN <<FromElement("base", Entities(Cur, heap)[1].selectable,
                                       FALSE, FALSE, <<>>)>>
                    ELSE Cur._from_obj
        plain == SelectSeq(from_obj, LAMBDA fe : ~fe.aliased)
    IN [i \in 1..Len(plain) |->
          IF plain[i].kind = "base" THEN plain[i].target
          ELSE IF plain[i].target = "User" THEN "users"
          ELSE IF plain[i].target = "Person" THEN "people" ELSE "addresses"]

\* C35: after any sequence of join()/outerjoin() calls no table is joined
\* twice un-aliased, the Query's own root table included
C35_NoTableTwice ==
    \A t \in {"users", "addresses", "people"} : Times(UnaliasedTables, t) <= 1

\* the part of C35 that holds: no table other than the root's is named twice
\* un-aliased, a second join to it being skipped or aliased
C35_NoTargetTwice ==
    /\ Times(UnaliasedTables, "addresses") <= 1
    /\ Times(UnaliasedTables, "users") <= 2

SlotQuiet == \A t \in Threads : session.pc[t] = "idle"

\* C37: Lazy Slot resolution has no internal locking. When a single thread
\* resolves the slot the callable is invoked at most once (once, when no
\* value was stored) and no read fails; two threads that read the same
\* unresolved slot can each invoke it, never more than once per thread
C37_SingleWriterOnce ==
    /\ session.n <= Cardinality(xlast)
    /\ Cardinality(xlast) <= 1 =>
          /\ session.n <= 1
          /\ \A t \in Threads : session.err[t] = "ok"
          /\ (xlast # {} /\ SlotQuiet /\ session.returns # Null) =>
                /\ session.entry = "PropHistory"
                /\ session.val # Null /\ session.val # Absent
                /\ \A t \in Threads :
                      session.reads[t] > 0 => session.local[t] = session.val

\* two threads read the unresolved slot, both reads ended without an error,
\* and the callable was invoked twice
C37_Witness ==
    /\ SlotQuiet
    /\ session.n = 2
    /\ \A t \in Threads : session.err[t] = "ok"

\* the second reader failed on the slot the first had already detached
C37_SecondReaderFails ==
    /\ SlotQuiet
    /\ \E t \in Threads : session.err[t] = "AttributeError"

\* the newest Query is the one a from_self() call returned
FromSelfReturned == qlast.op = "from_self" /\ qlast.err = "ok"

\* C38: on the Query from_self() returns, criterion, order_by, group_by,
\* having, distinct, limit and offset are all reset: the row-shaping state is
\* in the wrapped inner statement alone
C38_FromSelfResets ==
    FromSelfReturned =>
       LET q == queries[qlast.new]
       IN /\ q._criterion = <<>> /\ q._order_by = <<>> /\ q._group_by = <<>>
          /\ q._having = <<>> /\ q._distinct = FALSE
          /\ q._limit = Unset /\ q._offset = Unset

\* the part of C38 that holds: everything but having is reset, and the
\* wrapped statement is the one the source Query compiles to
C38_ResetsButHaving ==
    FromSelfReturned =>
       LET q == queries[qlast.new]
       IN /\ q._criterion = <<>> /\ q._order_by = <<>> /\ q._group_by = <<>>
          /\ q._distinct = FALSE /\ q._limit = Unset /\ q._offset = Unset
          /\ q._statement = NoName
          /\ Len(q._from_obj) = 1 /\ q._from_obj[1].kind = "subquery"

\* an update() in evaluate mode just ran to its end with `keys` keys or more,
\* and every instance that was loaded, agreed with its row and met the
\* criterion agrees with the row the database now has
SyncedAfterUpdate(keys) ==
    ( /\ xlast'.op = "update" /\ xlast'.where # NoClause
      /\ xlast'.sync = "evaluate" /\ xlast'.err = "ok"
      /\ Len(xlast'.values) = keys ) =>
        \A pk \in Pks :
            ( /\ session[pk].in_map /\ session[pk].expired = {}
              /\ db[pk].present /\ AsRow(session[pk]) = db[pk]
              /\ Satisfies(xlast'.where, session[pk]) ) =>
                 /\ db'[pk] = updated_row(xlast'.where, xlast'.values, db[pk])
                 /\ AsRow(session'[pk]) = db'[pk]

\* C39: update(values) in evaluate mode with several keys whose value
\* expressions read other updated columns leaves every matching in-memory
\* instance with the values the database row receives: each expression is
\* evaluated against the pre-update attribute values, whatever the order of
\* the keys
C39_MultiKeyUpdate == [][SyncedAfterUpdate(2)]_vars

\* the part of C39 that holds: with one key the instance gets the values of
\* the row
C39_SingleKeyUpdate == [][SyncedAfterUpdate(1)]_vars

\* the Python slice s[a:b] of a list, 0 <= a <= b
PySlice(s, a, b) ==
    IF a >= Min(b, Len(s)) THEN <<>> ELSE SubSeq(s, a + 1, Min(b, Len(s)))

\* what C40 says of the slicing operation just made
WithinAll ==
    /\ (xlast.op = "getitem" /\ xlast.err = "ok") =>
          xlast.list = PySlice(xlast.all, xlast.start, xlast.stop)
    /\ (xlast.op = "first" /\ xlast.err = "ok") =>
          xlast.ret = IF xlast.all = <<>> THEN NoneObj ELSE xlast.all[1]
    /\ xlast.op = "one" =>
          /\ xlast.err = "ok" => (Len(xlast.all) = 1 /\ xlast.ret = xlast.all[1])
          /\ xlast.err = "NoResultFound" => xlast.all = <<>>
          /\ xlast.err = "MultipleResultsFound" => Len(xlast.all) > 1

\* C40: slicing never widens a Query's result: for a Query that carries
\* LIMIT and/or OFFSET, the rows q[a:b], first() and one() return are taken
\* from within the rows q.all() returns, q[a:b] being q.all()[a:b]
C40_SliceNeverWidens == xlast.op \in {"getitem", "first", "one"} => WithinAll

\* the part of C40 that holds: on a Query that carries no LIMIT (an OFFSET
\* or nothing) the slices are taken from the rows of all()
C40_SliceOfUnlimited ==
    ( /\ xlast.op \in {"getitem", "first", "one"}
      /\ queries[xlast.src]._limit = Unset ) => WithinAll

====
